---- MODULE Spec2Model ----
(***************************************************************************)
(* The distributed task queue and worker pool of ninjasquad:               *)
(*   queue/client.rs   InMemoryQueueClient (tasks, results, workers)       *)
(*   queue/worker.rs   WorkerService (start, stop, heartbeat and task loop)*)
(*   session/manager.rs SessionManager (register, distribute, failure)     *)
(*   queue/local_test.rs LocalTestMode (start, simulate_task, get_stats)   *)
(*   queue/client.rs   RedisQueueClient (the task list)                    *)
(* Every lock-protected section of the source is one atomic step; an       *)
(* .await between two sections is a point where other steps interleave.    *)
(***************************************************************************)
EXTENDS Integers, Sequences, FiniteSets, Bags, TLC

VARIABLES
    tasks,       \* InMemoryQueueClient.tasks: Vec<TaskMessage>
    results,     \* InMemoryQueueClient.results: HashMap<String, TaskResult>
    workers,     \* InMemoryQueueClient.workers: HashMap<String, WorkerInfo>
    now,         \* chrono::Utc::now(), in milliseconds
    running,     \* WorkerService.running, per worker
    info,        \* WorkerService.info, per worker
    taskLoops,   \* per worker: the bag of spawned task loops still alive
    hbLoops,     \* per worker: the bag of spawned heartbeat loops
    calls,       \* per worker: the bag of start()/stop() calls past their first await
    published,   \* history: the bag of tasks given to publish_task
    delivered,   \* history: the bag of tasks consume_task has returned
    polls,       \* history: per task id, the consume_result calls since the last publish_result
    resultLog,   \* history: per task id, the result last given to publish_result
    beatAt,      \* history: per worker id, when it was last registered or heartbeated
    ticks,       \* history: the number of clock advances
    lastOp,      \* history: the operation the last step performed, with what it returned
    sessions,           \* SessionManager.sessions: HashMap<String, OrchestratorSession>
    order,              \* the order in which sessions.iter() visits the session ids
    round_robin_index,  \* SessionManager.round_robin_index
    pending_tasks,      \* SessionManager.pending_tasks: VecDeque<Task>
    mcalls,             \* the bag of SessionManager calls past their first await
    issued,             \* the number of task ids distribute_task has generated
    distLog,            \* history: what distribute_task returned to its callers, in order
    harness,     \* LocalTestMode: running, and how far start() has come
    sim,         \* LocalTestMode: the simulate_task call in flight or last returned
    redis_tasks,    \* RedisQueueClient: the list under task_queue_name, head first
    redis_results,  \* RedisQueueClient: per task id, the value under result_queue_name:task_id
    redis_workers,  \* RedisQueueClient: per worker id, the value under worker_queue_name:id
    rcalls          \* the bag of RedisQueueClient calls between two commands

vars == <<tasks, results, workers, now, running, info, taskLoops, hbLoops, calls,
          published, delivered, polls, resultLog, beatAt, ticks, lastOp,
          sessions, order, round_robin_index, pending_tasks, mcalls, issued, distLog,
          harness, sim, redis_tasks, redis_results, redis_workers, rcalls>>

harnessVars == <<harness, sim>>
redisVars == <<redis_tasks, redis_results, redis_workers, rcalls>>

sessionVars == <<sessions, order, round_robin_index, pending_tasks, mcalls, issued, distLog>>

queueVars == <<tasks, results, workers>>
workerVars == <<running, info, taskLoops, hbLoops, calls>>
queueHistory == <<published, delivered, polls, resultLog>>

----------------------------------------------------------------------------
(* Bounds of the model *)

\* publish_task calls in one behaviour
MaxPublished == 3

\* publish_task calls in one behaviour of one worker's life cycle
MaxQueued == 1

\* publish_task calls in one behaviour of the worker pool
MaxPoolTasks == 2

\* clock advances in one behaviour
MaxTicks == 3

\* successful start() calls per worker
MaxStarts == 2

\* start()/stop() calls of one worker that are in flight together
MaxInFlight == 1

\* consume_result calls counted per task id between two publish_result calls
MaxPolls == 3

\* publish_task calls in one behaviour of a worker fed with every task type
MaxHandled == 2

\* register_session calls in one behaviour
MaxSessions == 3

\* distribute_task calls by callers in one behaviour without session failures
MaxDistributed == 4

\* distribute_task calls by callers in one behaviour with session failures
MaxPrompts == 2

\* simulate_task calls in one behaviour of the harness
MaxSimulated == 1

\* publish_task calls in one behaviour of the two queue clients side by side
MaxMirrored == 3

----------------------------------------------------------------------------
(* Data *)

\* Option<T>: None is the empty sequence, Some(x) the one-element sequence
None == <<>>
Some(x) == <<x>>

\* WorkerService ids (Uuid::new_v4 at construction)
Workers == {"w1", "w2"}

\* TaskMessage.id values a submitter uses; publish_task does not deduplicate
TaskIds == {"t1", "t2"}

\* TaskMessage.priority values (u8); 5 is TaskMessage::new's default
Priorities == {1, 5, 9}

\* WorkerStatus
WorkerStatus == {"Online", "Busy", "Offline", "Maintenance"}

\* WorkerService::new: max_concurrent_tasks of the worker's own WorkerInfo
max_concurrent_tasks == 5

\* get_active_workers: the staleness window, in seconds
StaleSeconds == 60

\* the clock advances by half a second or by 59 seconds
ClockSteps == {500, 59000}

\* TaskType: the five built-in variants, and Custom(name)
BuiltIn == {"RunCommand", "CreateSession", "ExecuteCode", "HealthCheck", "FileOperation"}
TaskType(tag) == [tag |-> tag, name |-> ""]
Custom(name) == [tag |-> "Custom", name |-> name]

\* the task types a submitter uses
TaskTypes == {TaskType(tag) : tag \in BuiltIn} \cup {Custom("deploy")}

\* TaskMessage::new(task_type, ..).with_priority(priority): created_at is Utc::now()
TaskMessage(id, task_type, priority, created_at) ==
    [id |-> id, task_type |-> task_type, priority |-> priority, created_at |-> created_at]

\* Result<serde_json::Value, String>, as a handler returns it
ResultOk == [is_ok |-> TRUE, err |-> None]
ResultErr(e) == [is_ok |-> FALSE, err |-> Some(e)]

\* TaskResult: error is None or Some(message)
TaskResult(task_id, worker_id, success, error) ==
    [task_id |-> task_id, worker_id |-> worker_id, success |-> success, error |-> error]

\* WorkerService::new: the worker's own WorkerInfo
NewWorkerInfo(id, t) ==
    [id |-> id, status |-> "Online", last_heartbeat |-> t,
     max_concurrent_tasks |-> max_concurrent_tasks, current_tasks |-> <<>>]

\* what a step did: the operation, the worker or caller, the Result and the Option returned
Op(op, who, res, val) == [op |-> op, who |-> who, res |-> res, val |-> val]

\* a step inside a call or a loop that returns nothing to a caller
Quiet == Op("-", "-", "Ok", None)

\* session ids: register_session names the n-th session it creates n
SessionIds == 1..MaxSessions

\* the prompts callers distribute
Prompts == {"Task 1", "Task 2"}

\* SessionStatus; Failed stands for Failed("Session failed")
SessionStatus == {"Idle", "Working", "Failed", "Completed"}

\* SessionManager::new: the distribution strategy
distribution_strategy == "RoundRobin"

\* register_session: the session it builds
OrchestratorSession(id, opencode_server_id) ==
    [id |-> id, opencode_server_id |-> opencode_server_id, status |-> "Idle", task |-> None]

\* distribute_task: the Task it builds, under the issued-th fresh id
Task(id, prompt) == [id |-> id, prompt |-> prompt, completed_at |-> None]

\* a SessionManager call in flight: handle_session_failure (session_id set) or
\* distribute_task; the task it carries, the session find_available_session
\* chose, and (history) the sessions when the call began
Call(op, pc, session_id, task, selected, pre) ==
    [op |-> op, pc |-> pc, session_id |-> session_id, task |-> task,
     selected |-> selected, pre |-> pre]

\* the opencode server ids callers register sessions for
ServerIds == {"server-1", "server-2"}

\* LocalTestMode::start, line 71: format!("local-worker-{}", i), the id of the
\* synthetic WorkerInfo registered with the i-th worker, from 1
LocalWorkerId == <<"local-worker-0", "local-worker-1">>

\* the i-th WorkerService LocalTestMode::start creates, from 1
HarnessWorker == <<"w1", "w2">>

\* every key of the worker directory
DirectoryIds == Workers \cup {LocalWorkerId[i] : i \in DOMAIN LocalWorkerId}

\* LocalTestMode::start, lines 70-86: the synthetic WorkerInfo
LocalWorkerInfo(id, t) ==
    [id |-> id, status |-> "Online", last_heartbeat |-> t,
     max_concurrent_tasks |-> 2, current_tasks |-> <<>>]

\* simulate_task, lines 151-177: the scenario names and the task type of each
Scenarios == {"create_session", "run_command", "health_check"}

ScenarioType(name) ==
    CASE name = "create_session" -> TaskType("CreateSession")
      [] name = "run_command" -> TaskType("RunCommand")
      [] name = "health_check" -> TaskType("HealthCheck")

\* the names callers give to simulate_task
SimulatedNames == {"health_check", "unknown_type"}

\* simulate_task, line 202: the comparand of attempts
PollAttempts == 30

\* the id (Uuid::new_v4) of the n-th TaskMessage built in a behaviour
FreshTaskId(n) == IF n = 1 THEN "t1" ELSE "t2"

\* a simulate_task call: where it stands, the calls so far, the name given, the
\* id of the task published, attempts, (history) its consume_result calls, and
\* the Result returned
Simulate(pc, made, task_type, task_id, attempts, polled, res) ==
    [pc |-> pc, made |-> made, task_type |-> task_type, task_id |-> task_id,
     attempts |-> attempts, polled |-> polled, res |-> res]

\* an entry of distLog: the Result with the task id, and (history) the session
\* selected and what came of the forwarding
Returned(res, task_id, session, forwarded) ==
    [res |-> res, task_id |-> task_id, session |-> session, forwarded |-> forwarded]

----------------------------------------------------------------------------
(* InMemoryQueueClient: each method is one write-locked section *)

\* slice::sort_by(|a, b| b.priority.cmp(&a.priority)): stable, descending
RECURSIVE sort_by_priority_desc(_)
sort_by_priority_desc(v) ==
    IF Len(v) <= 1 THEN v
    ELSE LET head == sort_by_priority_desc(SubSeq(v, 1, Len(v) - 1))
             x == v[Len(v)]
             \* x goes after every element it does not precede: those with priority >= x's
             keep == {i \in 1..Len(head) : head[i].priority >= x.priority}
             k == Cardinality(keep)
         IN  SubSeq(head, 1, k) \o <<x>> \o SubSeq(head, k + 1, Len(head))

\* publish_task: push, then sort
publish_task(v, task) == sort_by_priority_desc(Append(v, task))

\* mutant: consume_task reads the last element and leaves it in the Vec
consume_task_peek(v) ==
    IF v = <<>> THEN [ret |-> None, rest |-> v]
    ELSE [ret |-> Some(v[Len(v)]), rest |-> v]

\* consume_task: Vec::pop, the last element
consume_task(v) ==
    IF v = <<>> THEN [ret |-> None, rest |-> v]
    ELSE [ret |-> Some(v[Len(v)]), rest |-> SubSeq(v, 1, Len(v) - 1)]

\* publish_result: HashMap::insert under the result's task_id
publish_result(m, result) == [m EXCEPT ![result.task_id] = Some(result)]

\* mutant: consume_result reads the entry (HashMap::get) and leaves it
consume_result_get(m, task_id) == [ret |-> m[task_id], rest |-> m]

\* consume_result: HashMap::remove
consume_result(m, task_id) ==
    [ret |-> m[task_id], rest |-> [m EXCEPT ![task_id] = None]]

\* register_worker: HashMap::insert under the worker's id, the info stored as given
register_worker(m, worker) == [m EXCEPT ![worker.id] = Some(worker)]

\* mutant: update_worker_heartbeat inserts an entry for an id it does not find
update_worker_heartbeat_upsert(m, worker_id, t) ==
    [res |-> "Ok",
     rest |-> [m EXCEPT ![worker_id] =
                   IF m[worker_id] # None
                   THEN Some([m[worker_id][1] EXCEPT !.last_heartbeat = t])
                   ELSE Some(NewWorkerInfo(worker_id, t))]]

\* update_worker_heartbeat: get_mut, then stamp the entry, else the not-found error
update_worker_heartbeat(m, worker_id, t) ==
    IF m[worker_id] # None
    THEN [res |-> "Ok",
          rest |-> [m EXCEPT ![worker_id] =
                        Some([m[worker_id][1] EXCEPT !.last_heartbeat = t])]]
    ELSE [res |-> "Err: Worker not found", rest |-> m]

\* chrono::Duration::num_seconds: the whole seconds of a duration given in
\* milliseconds, truncated toward zero
num_seconds(ms) == IF ms >= 0 THEN ms \div 1000 ELSE -((-ms) \div 1000)

\* get_active_workers: the ids of the entries whose heartbeat is recent
get_active_workers(m, t) ==
    {id \in DOMAIN m : m[id] # None
                       /\ num_seconds(t - m[id][1].last_heartbeat) < StaleSeconds}

\* remove_worker: HashMap::remove
remove_worker(m, worker_id) == [m EXCEPT ![worker_id] = None]

----------------------------------------------------------------------------
(* RedisQueueClient: the task list under task_queue_name *)

\* serde_json::to_string(&task): the fields of the TaskMessage, named, in the
\* order of the struct
to_string(task) ==
    <<<<"id", task.id>>, <<"task_type", task.task_type>>,
      <<"created_at", task.created_at>>, <<"priority", task.priority>>>>

\* serde_json::from_str(&json): the TaskMessage of the named fields
from_str(json) ==
    LET field(name) == (CHOOSE k \in 1..Len(json) : json[k][1] = name)
    IN  TaskMessage(json[field("id")][2], json[field("task_type")][2],
                    json[field("priority")][2], json[field("created_at")][2])

\* LPUSH: the value becomes the head of the list
lpush(list, value) == <<value>> \o list

\* RPOP: the tail of the list leaves it
rpop(list) ==
    IF list = <<>> THEN [ret |-> None, rest |-> list]
    ELSE [ret |-> Some(list[Len(list)]), rest |-> SubSeq(list, 1, Len(list) - 1)]

\* RedisQueueClient::publish_task, lines 119-132: serialize, then lpush
redis_publish_task(list, task) == lpush(list, to_string(task))

\* RedisQueueClient::consume_task, lines 134-150: rpop, then deserialize
redis_consume_task(list) ==
    LET r == rpop(list)
    IN  [ret |-> IF r.ret # None THEN Some(from_str(r.ret[1])) ELSE None, rest |-> r.rest]

\* serde_json::to_string(&result) and from_str, for a TaskResult
result_to_string(result) ==
    <<<<"task_id", result.task_id>>, <<"worker_id", result.worker_id>>,
      <<"success", result.success>>, <<"error", result.error>>>>

result_from_str(json) ==
    LET field(name) == (CHOOSE k \in 1..Len(json) : json[k][1] = name)
    IN  TaskResult(json[field("task_id")][2], json[field("worker_id")][2],
                   json[field("success")][2], json[field("error")][2])

\* serde_json::to_string(&worker) and from_str, for a WorkerInfo
worker_to_string(worker) ==
    <<<<"id", worker.id>>, <<"status", worker.status>>,
      <<"last_heartbeat", worker.last_heartbeat>>,
      <<"max_concurrent_tasks", worker.max_concurrent_tasks>>,
      <<"current_tasks", worker.current_tasks>>>>

worker_from_str(json) ==
    LET field(name) == (CHOOSE k \in 1..Len(json) : json[k][1] = name)
    IN  [id |-> json[field("id")][2], status |-> json[field("status")][2],
         last_heartbeat |-> json[field("last_heartbeat")][2],
         max_concurrent_tasks |-> json[field("max_concurrent_tasks")][2],
         current_tasks |-> json[field("current_tasks")][2]]

\* SET key value EX seconds, GET key, DEL key on the keys of one prefix; the
\* expiry of a key is not modelled
set_ex(m, key, value) == [m EXCEPT ![key] = Some(value)]
get(m, key) == m[key]
del(m, key) == [m EXCEPT ![key] = None]

\* RedisQueueClient::publish_result, lines 152-166
redis_publish_result(m, result) == set_ex(m, result.task_id, result_to_string(result))

\* RedisQueueClient::register_worker, lines 191-205
redis_register_worker(m, worker) == set_ex(m, worker.id, worker_to_string(worker))

\* RedisQueueClient::remove_worker, lines 261-272
redis_remove_worker(m, worker_id) == del(m, worker_id)

\* RedisQueueClient::get_active_workers, lines 236-259: the ids of the keys that
\* exist
redis_get_active_workers(m) == {id \in DOMAIN m : get(m, id) # None}

\* a RedisQueueClient call between its GET and its second command: the caller,
\* the key, and the value the GET returned
RedisCall(op, who, key, read) == [op |-> op, who |-> who, key |-> key, read |-> read]

----------------------------------------------------------------------------
(* The state after construction: InMemoryQueueClient::new, WorkerService::new *)

Bag1(x) == SetToBag({x})

NoPolls == [calls |-> 0, hits |-> 0]

Init ==
    /\ tasks = <<>>
    /\ results = [t \in TaskIds |-> None]
    /\ workers = [w \in DirectoryIds |-> None]
    /\ now = 0
    /\ running = [w \in Workers |-> FALSE]
    /\ info = [w \in Workers |-> NewWorkerInfo(w, 0)]
    /\ taskLoops = [w \in Workers |-> EmptyBag]
    /\ hbLoops = [w \in Workers |-> EmptyBag]
    /\ calls = [w \in Workers |-> EmptyBag]
    /\ published = EmptyBag
    /\ delivered = EmptyBag
    /\ polls = [t \in TaskIds |-> NoPolls]
    /\ resultLog = [t \in TaskIds |-> None]
    /\ beatAt = [w \in Workers |-> None]
    /\ ticks = 0
    /\ lastOp = Op("new", "-", "Ok", None)
    /\ sessions = [id \in SessionIds |-> None]
    /\ order = <<>>
    /\ round_robin_index = 0
    /\ pending_tasks = <<>>
    /\ mcalls = EmptyBag
    /\ issued = 0
    /\ distLog = <<>>
    /\ harness = [running |-> FALSE, num_workers |-> 0, registered |-> 0, stop |-> "-"]
    /\ sim = Simulate("idle", 0, "", None, 0, 0, None)
    /\ redis_tasks = <<>>
    /\ redis_results = [t \in TaskIds |-> None]
    /\ redis_workers = [w \in Workers |-> None]
    /\ rcalls = EmptyBag

----------------------------------------------------------------------------
(* Callers of the queue: the commands of lib.rs and the harness *)

\* the clock advances
Tick(d) ==
    /\ ticks < MaxTicks
    /\ now' = now + d
    /\ ticks' = ticks + 1
    /\ lastOp' = Quiet
    /\ UNCHANGED <<sessionVars, harnessVars, redisVars, queueVars, workerVars, queueHistory, beatAt>>

\* a submitter builds a TaskMessage at clock reading created_at and publishes it
PublishTask(id, task_type, priority, created_at, limit) ==
    /\ BagCardinality(published) < limit
    /\ LET task == TaskMessage(id, task_type, priority, created_at)
       IN  /\ tasks' = publish_task(tasks, task)
           /\ published' = published (+) Bag1(task)
           /\ lastOp' = Op("publish_task", "-", "Ok", Some(task))
    /\ UNCHANGED <<sessionVars, harnessVars, redisVars, results, workers, now, workerVars, delivered, polls, resultLog,
                   beatAt, ticks>>

\* a consumer other than a WorkerService calls consume_task
ConsumeTask(caller) ==
    /\ LET r == consume_task(tasks)
       IN  /\ tasks' = r.rest
           /\ delivered' = IF r.ret # None THEN delivered (+) Bag1(r.ret[1]) ELSE delivered
           /\ lastOp' = Op("consume_task", caller, "Ok", r.ret)
    /\ UNCHANGED <<sessionVars, harnessVars, redisVars, results, workers, now, workerVars, published, polls, resultLog,
                   beatAt, ticks>>

\* the effect of publish_result on the queue and on its history
PublishResultEffect(result) ==
    /\ results' = publish_result(results, result)
    /\ resultLog' = [resultLog EXCEPT ![result.task_id] = Some(result)]
    /\ polls' = [polls EXCEPT ![result.task_id] = NoPolls]

\* a submitter publishes the same TaskMessage through an InMemoryQueueClient and
\* through a RedisQueueClient
PublishTaskToBoth(id, task_type, priority, created_at, limit) ==
    /\ BagCardinality(published) < limit
    /\ LET task == TaskMessage(id, task_type, priority, created_at)
       IN  /\ tasks' = publish_task(tasks, task)
           /\ redis_tasks' = redis_publish_task(redis_tasks, task)
           /\ published' = published (+) Bag1(task)
           /\ lastOp' = Op("publish_task", "both clients", "Ok", Some(task))
    /\ UNCHANGED <<sessionVars, harnessVars, redis_results, redis_workers, rcalls, results, workers, now, workerVars, delivered, polls,
                   resultLog, beatAt, ticks>>

\* a consumer calls consume_task of both clients; val is what the in-memory
\* client returned, then what the Redis client returned
ConsumeTaskFromBoth ==
    /\ LET m == consume_task(tasks)
           r == redis_consume_task(redis_tasks)
       IN  /\ tasks' = m.rest
           /\ redis_tasks' = r.rest
           /\ delivered' = IF m.ret # None THEN delivered (+) Bag1(m.ret[1]) ELSE delivered
           /\ lastOp' = Op("consume_task", "both clients", "Ok", <<m.ret, r.ret>>)
    /\ UNCHANGED <<sessionVars, harnessVars, redis_results, redis_workers, rcalls, results, workers, now, workerVars, published, polls,
                   resultLog, beatAt, ticks>>

\* a producer other than a WorkerService calls publish_result
PublishResult(result) ==
    /\ PublishResultEffect(result)
    /\ lastOp' = Op("publish_result", result.worker_id, "Ok", Some(result))
    /\ UNCHANGED <<sessionVars, harnessVars, redisVars, tasks, workers, now, workerVars, published, delivered, beatAt, ticks>>

\* a caller polls for the result of task_id
ConsumeResult(task_id) ==
    /\ polls[task_id].calls < MaxPolls
    /\ LET r == consume_result(results, task_id)
       IN  /\ results' = r.rest
           /\ polls' = [polls EXCEPT ![task_id] =
                           [calls |-> @.calls + 1,
                            hits |-> @.hits + (IF r.ret # None THEN 1 ELSE 0)]]
           /\ lastOp' = Op("consume_result", task_id, "Ok", r.ret)
    /\ UNCHANGED <<sessionVars, harnessVars, redisVars, tasks, workers, now, workerVars, published, delivered, resultLog,
                   beatAt, ticks>>

----------------------------------------------------------------------------
(* WorkerService *)

\* a task loop: where it stands, the task it holds, (history) what the match of
\* process_task ran for it, the TaskResult process_task returned, and (history)
\* its consume_task calls since stop() returned
TaskLoop(pc, task, handled, result, pulls) ==
    [pc |-> pc, task |-> task, handled |-> handled, result |-> result, pulls |-> pulls]

\* a task loop at the top of an iteration
IdleLoop(pulls) == TaskLoop("check", None, None, None, pulls)

\* a heartbeat loop: (history) its update_worker_heartbeat calls since stop() returned
HeartbeatLoop(beats) == [beats |-> beats]

Swap(B, old, new) == (B (-) Bag1(old)) (+) Bag1(new)

\* start() calls of w that passed the running guard
StartsOf(w) == BagCardinality(hbLoops[w]) + CopiesIn("start", calls[w])

\* every stop() of w has returned and start() was not called since
Stopped(w) == ~running[w] /\ ~BagIn("stop", calls[w])

\* a history counter that stops counting at 2
Count(w, n) == IF Stopped(w) /\ n < 2 THEN n + 1 ELSE n

\* mutant: start() sets the running flag without testing it
StartGuard_unguarded(w, limit) ==
    /\ StartsOf(w) < limit
    /\ BagCardinality(calls[w]) < MaxInFlight
    /\ running' = [running EXCEPT ![w] = TRUE]
    /\ calls' = [calls EXCEPT ![w] = @ (+) Bag1("start")]
    /\ taskLoops' = [taskLoops EXCEPT ![w] =
                        BagOfAll(LAMBDA l : [l EXCEPT !.pulls = 0], @)]
    /\ hbLoops' = [hbLoops EXCEPT ![w] =
                      BagOfAll(LAMBDA l : [l EXCEPT !.beats = 0], @)]
    /\ lastOp' = Op("start_guard", w, "Ok", None)
    /\ UNCHANGED <<sessionVars, harnessVars, redisVars, queueVars, now, info, queueHistory, beatAt, ticks>>

\* start(), lines 56-61: the guard on the running flag, under its write lock
StartGuard(w, limit) ==
    IF running[w]
    THEN /\ lastOp' = Op("start", w, "Err: Worker already running", None)
         /\ UNCHANGED <<sessionVars, harnessVars, redisVars, queueVars, now, workerVars, queueHistory, beatAt, ticks>>
    ELSE /\ StartsOf(w) < limit
         /\ BagCardinality(calls[w]) < MaxInFlight
         /\ running' = [running EXCEPT ![w] = TRUE]
         /\ calls' = [calls EXCEPT ![w] = @ (+) Bag1("start")]
         /\ taskLoops' = [taskLoops EXCEPT ![w] =
                             BagOfAll(LAMBDA l : [l EXCEPT !.pulls = 0], @)]
         /\ hbLoops' = [hbLoops EXCEPT ![w] =
                           BagOfAll(LAMBDA l : [l EXCEPT !.beats = 0], @)]
         /\ lastOp' = Op("start_guard", w, "Ok", None)
         /\ UNCHANGED <<sessionVars, harnessVars, redisVars, queueVars, now, info, queueHistory, beatAt, ticks>>

\* start(), lines 63-112: register the worker's own info, spawn both loops
StartRegister(w) ==
    /\ BagIn("start", calls[w])
    /\ workers' = register_worker(workers, info[w])
    /\ hbLoops' = [hbLoops EXCEPT ![w] = @ (+) Bag1(HeartbeatLoop(0))]
    /\ taskLoops' = [taskLoops EXCEPT ![w] = @ (+) Bag1(IdleLoop(0))]
    /\ calls' = [calls EXCEPT ![w] = @ (-) Bag1("start")]
    /\ beatAt' = [beatAt EXCEPT ![w] = Some(now)]
    /\ lastOp' = Op("start", w, "Ok", None)
    /\ UNCHANGED <<sessionVars, harnessVars, redisVars, tasks, results, now, running, info, queueHistory, ticks>>

\* stop(), lines 116-118: clear the running flag
StopFlag(w) ==
    /\ BagCardinality(calls[w]) < MaxInFlight
    /\ running' = [running EXCEPT ![w] = FALSE]
    /\ calls' = [calls EXCEPT ![w] = @ (+) Bag1("stop")]
    /\ lastOp' = Quiet
    /\ UNCHANGED <<sessionVars, harnessVars, redisVars, queueVars, now, info, taskLoops, hbLoops, queueHistory, beatAt, ticks>>

\* stop(), lines 120-122: remove the worker from the directory
StopRemove(w) ==
    /\ BagIn("stop", calls[w])
    /\ workers' = remove_worker(workers, w)
    /\ calls' = [calls EXCEPT ![w] = @ (-) Bag1("stop")]
    /\ beatAt' = [beatAt EXCEPT ![w] = None]
    /\ lastOp' = Op("stop", w, "Ok", None)
    /\ UNCHANGED <<sessionVars, harnessVars, redisVars, tasks, results, now, running, info, taskLoops, hbLoops,
                   queueHistory, ticks>>

\* the heartbeat loop, lines 73-78: one tick of the interval
HeartbeatTick(w, l) ==
    /\ BagIn(l, hbLoops[w])
    /\ LET r == update_worker_heartbeat(workers, w, now)
       IN  /\ workers' = r.rest
           /\ beatAt' = IF r.res = "Ok" THEN [beatAt EXCEPT ![w] = Some(now)] ELSE beatAt
           /\ lastOp' = Op("update_worker_heartbeat", w, r.res, None)
    /\ hbLoops' = [hbLoops EXCEPT ![w] = Swap(@, l, HeartbeatLoop(Count(w, l.beats)))]
    /\ UNCHANGED <<sessionVars, harnessVars, redisVars, tasks, results, now, running, info, taskLoops, calls,
                   queueHistory, ticks>>

\* mutant: the task loop does not test the running flag (loop, as the heartbeat loop)
TaskLoopCheck_unconditional(w, l) ==
    /\ BagIn(l, taskLoops[w])
    /\ l.pc = "check"
    /\ taskLoops' = [taskLoops EXCEPT ![w] = Swap(@, l, [l EXCEPT !.pc = "consume"])]
    /\ lastOp' = Quiet
    /\ UNCHANGED <<sessionVars, harnessVars, redisVars, queueVars, now, running, info, hbLoops, calls, queueHistory,
                   beatAt, ticks>>

\* the task loop, line 87: while *running.read().await
TaskLoopCheck(w, l) ==
    /\ BagIn(l, taskLoops[w])
    /\ l.pc = "check"
    /\ taskLoops' = [taskLoops EXCEPT ![w] =
                        IF running[w] THEN Swap(@, l, [l EXCEPT !.pc = "consume"])
                        ELSE @ (-) Bag1(l)]
    /\ lastOp' = Quiet
    /\ UNCHANGED <<sessionVars, harnessVars, redisVars, queueVars, now, running, info, hbLoops, calls, queueHistory,
                   beatAt, ticks>>

\* the task loop, lines 88-107: consume_task; on None (or an error), sleep and
\* go back to the loop condition
TaskLoopConsume(w, l) ==
    /\ BagIn(l, taskLoops[w])
    /\ l.pc = "consume"
    /\ LET r == consume_task(tasks)
       IN  /\ tasks' = r.rest
           /\ delivered' = IF r.ret # None THEN delivered (+) Bag1(r.ret[1]) ELSE delivered
           /\ taskLoops' = [taskLoops EXCEPT ![w] =
                  Swap(@, l, TaskLoop(IF r.ret # None THEN "begin" ELSE "check",
                                      r.ret, None, None, Count(w, l.pulls)))]
           /\ lastOp' = Op("consume_task", w, "Ok", r.ret)
    /\ UNCHANGED <<sessionVars, harnessVars, redisVars, results, workers, now, running, info, hbLoops, calls, published,
                   polls, resultLog, beatAt, ticks>>

\* Vec::retain(|id| id != &task_id)
retain(v, task_id) == SelectSeq(v, LAMBDA id : id # task_id)

\* mutant: process_task lists the task and leaves the status as it is
ProcessTaskBegin_keeps_status(w, l) ==
    /\ BagIn(l, taskLoops[w])
    /\ l.pc = "begin"
    /\ info' = [info EXCEPT ![w].current_tasks = Append(@, l.task[1].id)]
    /\ taskLoops' = [taskLoops EXCEPT ![w] = Swap(@, l, [l EXCEPT !.pc = "handler"])]
    /\ lastOp' = Quiet
    /\ UNCHANGED <<sessionVars, harnessVars, redisVars, queueVars, now, running, hbLoops, calls,
                   queueHistory, beatAt, ticks>>

\* process_task, lines 130-137: list the task in current_tasks, status Busy
ProcessTaskBegin(w, l) ==
    /\ BagIn(l, taskLoops[w])
    /\ l.pc = "begin"
    /\ info' = [info EXCEPT ![w].current_tasks = Append(@, l.task[1].id),
                            ![w].status = "Busy"]
    /\ taskLoops' = [taskLoops EXCEPT ![w] = Swap(@, l, [l EXCEPT !.pc = "handler"])]
    /\ lastOp' = Quiet
    /\ UNCHANGED <<sessionVars, harnessVars, redisVars, queueVars, now, running, hbLoops, calls, queueHistory, beatAt, ticks>>

\* the handler a built-in task type is dispatched to
HandlerOf(tag) ==
    CASE tag = "RunCommand" -> "handle_run_command"
      [] tag = "CreateSession" -> "handle_create_session"
      [] tag = "ExecuteCode" -> "handle_execute_code"
      [] tag = "HealthCheck" -> "handle_health_check"
      [] tag = "FileOperation" -> "handle_file_operation"

\* format!("Unknown custom task type: {}", custom_type): the literal and the argument
UnknownCustom(custom_type) == <<"Unknown custom task type: ", custom_type>>

\* mutant: a Custom task type is dispatched to the handler of health checks
match_task_type_catch_all(task_type, returned_ok) ==
    [handler |-> Some(IF task_type.tag \in BuiltIn THEN HandlerOf(task_type.tag)
                      ELSE "handle_health_check"),
     result |-> IF returned_ok THEN ResultOk ELSE ResultErr(<<"handler error">>)]

\* process_task, lines 139-158: the match on task.task_type; a built-in type runs
\* its handler, which returns Ok (returned_ok) or Err, a Custom type runs none
match_task_type(task_type, returned_ok) ==
    IF task_type.tag \in BuiltIn
    THEN [handler |-> Some(HandlerOf(task_type.tag)),
          result |-> IF returned_ok THEN ResultOk ELSE ResultErr(<<"handler error">>)]
    ELSE [handler |-> None, result |-> ResultErr(UnknownCustom(task_type.name))]

\* mutant: the TaskResult reports success whatever the handler returned
build_task_result_always_ok(task, worker_id, result) ==
    TaskResult(task.id, worker_id, TRUE, None)

\* mutant: the TaskResult is signed with the id of the first worker of the pool
build_task_result_unsigned(task, worker_id, result) ==
    TaskResult(task.id, "w1", result.is_ok, result.err)

\* process_task, lines 170-178: success is result.is_ok(), error is result.err()
build_task_result(task, worker_id, result) ==
    TaskResult(task.id, worker_id, result.is_ok, result.err)

\* process_task, lines 139-178: the handler returns Ok or Err; the task leaves
\* current_tasks, status Online when none remains; the TaskResult is built
ProcessTaskEnd(w, l, success) ==
    /\ BagIn(l, taskLoops[w])
    /\ l.pc = "handler"
    /\ LET left == retain(info[w].current_tasks, l.task[1].id)
       IN  info' = [info EXCEPT ![w].current_tasks = left,
                                ![w].status = IF left = <<>> THEN "Online" ELSE @]
    /\ LET m == match_task_type(l.task[1].task_type, success)
       IN  taskLoops' = [taskLoops EXCEPT ![w] =
               Swap(@, l, [l EXCEPT !.pc = "publish", !.handled = Some(m),
                                    !.result = Some(build_task_result(l.task[1], info[w].id,
                                                                      m.result))])]
    /\ lastOp' = Quiet
    /\ UNCHANGED <<sessionVars, harnessVars, redisVars, queueVars, now, running, hbLoops, calls, queueHistory, beatAt, ticks>>

\* mutant: stop() cancels the task loop, which drops the result of the task it holds
TaskLoopPublish_unless_stopped(w, l) ==
    /\ BagIn(l, taskLoops[w])
    /\ l.pc = "publish"
    /\ IF running[w]
       THEN /\ PublishResultEffect(l.result[1])
            /\ lastOp' = Op("publish_result", w, "Ok", l.result)
            /\ taskLoops' = [taskLoops EXCEPT ![w] = Swap(@, l, IdleLoop(l.pulls))]
       ELSE /\ taskLoops' = [taskLoops EXCEPT ![w] = @ (-) Bag1(l)]
            /\ lastOp' = Quiet
            /\ UNCHANGED <<results, resultLog, polls>>
    /\ UNCHANGED <<sessionVars, harnessVars, redisVars, tasks, workers, now, running, info, hbLoops, calls, published,
                   delivered, beatAt, ticks>>

\* the task loop, lines 96-98: publish the result, then the next iteration
TaskLoopPublish(w, l) ==
    /\ BagIn(l, taskLoops[w])
    /\ l.pc = "publish"
    /\ LET result == l.result[1]
       IN  /\ PublishResultEffect(result)
           /\ lastOp' = Op("publish_result", w, "Ok", Some(result))
    /\ taskLoops' = [taskLoops EXCEPT ![w] = Swap(@, l, IdleLoop(l.pulls))]
    /\ UNCHANGED <<sessionVars, harnessVars, redisVars, tasks, workers, now, running, info, hbLoops, calls, published,
                   delivered, beatAt, ticks>>

\* one step of one task loop of w, the handlers returning Ok (TRUE) or Err (FALSE)
TaskLoopStep(w, outcomes) ==
    \E l \in BagToSet(taskLoops[w]) :
        \/ TaskLoopCheck(w, l)
        \/ TaskLoopConsume(w, l)
        \/ ProcessTaskBegin(w, l)
        \/ \E success \in outcomes : ProcessTaskEnd(w, l, success)
        \/ TaskLoopPublish(w, l)

\* one tick of one heartbeat loop of w
HeartbeatStep(w) == \E l \in BagToSet(hbLoops[w]) : HeartbeatTick(w, l)


----------------------------------------------------------------------------
(* RedisQueueClient under its callers: every command is one step *)

\* a worker publishes a result through the Redis client
RedisPublishResult(result) ==
    /\ redis_results' = redis_publish_result(redis_results, result)
    /\ resultLog' = [resultLog EXCEPT ![result.task_id] = Some(result)]
    /\ polls' = [polls EXCEPT ![result.task_id] = NoPolls]
    /\ lastOp' = Op("publish_result", result.worker_id, "Ok", Some(result))
    /\ UNCHANGED <<sessionVars, harnessVars, redis_tasks, redis_workers, rcalls, queueVars, now,
                   workerVars, published, delivered, beatAt, ticks>>

\* consume_result, lines 168-177: the GET; without a value the call returns None
RedisConsumeResultGet(caller, task_id) ==
    /\ polls[task_id].calls < MaxPolls
    /\ \A c \in BagToSet(rcalls) : c.who # caller
    /\ LET json == get(redis_results, task_id)
       IN  IF json = None
           THEN /\ lastOp' = Op("consume_result", caller, "Ok", None)
                /\ polls' = [polls EXCEPT ![task_id].calls = @ + 1]
                /\ UNCHANGED rcalls
           ELSE /\ rcalls' = rcalls (+) Bag1(RedisCall("consume_result", caller, task_id, json[1]))
                /\ lastOp' = Quiet
                /\ UNCHANGED polls
    /\ UNCHANGED <<sessionVars, harnessVars, redis_tasks, redis_results, redis_workers, queueVars,
                   now, workerVars, published, delivered, resultLog, beatAt, ticks>>

\* consume_result, lines 178-185: deserialize what the GET returned, DEL the
\* key, return the result
RedisConsumeResultDel(c) ==
    /\ BagIn(c, rcalls)
    /\ c.op = "consume_result"
    /\ redis_results' = del(redis_results, c.key)
    /\ rcalls' = rcalls (-) Bag1(c)
    /\ polls' = [polls EXCEPT ![c.key] = [calls |-> @.calls + 1, hits |-> @.hits + 1]]
    /\ lastOp' = Op("consume_result", c.who, "Ok", Some(result_from_str(c.read)))
    /\ UNCHANGED <<sessionVars, harnessVars, redis_tasks, redis_workers, queueVars, now,
                   workerVars, published, delivered, resultLog, beatAt, ticks>>

\* start(), lines 63-112, on a Redis client: register the worker's own info,
\* spawn both loops
RedisStartRegister(w) ==
    /\ BagIn("start", calls[w])
    /\ redis_workers' = redis_register_worker(redis_workers, info[w])
    /\ hbLoops' = [hbLoops EXCEPT ![w] = @ (+) Bag1(HeartbeatLoop(0))]
    /\ taskLoops' = [taskLoops EXCEPT ![w] = @ (+) Bag1(IdleLoop(0))]
    /\ calls' = [calls EXCEPT ![w] = @ (-) Bag1("start")]
    /\ lastOp' = Op("start", w, "Ok", None)
    /\ UNCHANGED <<sessionVars, harnessVars, redis_tasks, redis_results, rcalls, queueVars, now,
                   running, info, queueHistory, beatAt, ticks>>

\* stop(), lines 120-122, on a Redis client: remove_worker
RedisStopRemove(w) ==
    /\ BagIn("stop", calls[w])
    /\ redis_workers' = redis_remove_worker(redis_workers, w)
    /\ calls' = [calls EXCEPT ![w] = @ (-) Bag1("stop")]
    /\ lastOp' = Op("stop", w, "Ok", None)
    /\ UNCHANGED <<sessionVars, harnessVars, redis_tasks, redis_results, rcalls, queueVars, now,
                   running, info, taskLoops, hbLoops, queueHistory, beatAt, ticks>>

\* the update_worker_heartbeat calls of w between their GET and their SET
BeatsInFlight(w) ==
    BagCardinality(rcalls)
        - BagCardinality(rcalls (-) [c \in {x \in BagToSet(rcalls) :
                                                x.op = "update_worker_heartbeat" /\ x.who = w}
                                       |-> CopiesIn(c, rcalls)])

\* a heartbeat loop of w, lines 73-78, calls update_worker_heartbeat, lines
\* 207-217: the GET; without a value the call returns the not-found error
RedisHeartbeatGet(w) ==
    /\ BeatsInFlight(w) < BagCardinality(hbLoops[w])
    /\ LET json == get(redis_workers, w)
       IN  IF json = None
           THEN /\ lastOp' = Op("update_worker_heartbeat", w, "Err: Worker not found", None)
                /\ UNCHANGED rcalls
           ELSE /\ rcalls' = rcalls (+) Bag1(RedisCall("update_worker_heartbeat", w, w, json[1]))
                /\ lastOp' = Quiet
    /\ UNCHANGED <<sessionVars, harnessVars, redis_tasks, redis_results, redis_workers, queueVars,
                   now, workerVars, queueHistory, beatAt, ticks>>

\* update_worker_heartbeat, lines 218-230: stamp what the GET returned and SET it
RedisHeartbeatSet(c) ==
    /\ BagIn(c, rcalls)
    /\ c.op = "update_worker_heartbeat"
    /\ redis_workers' =
           set_ex(redis_workers, c.key,
                  worker_to_string([worker_from_str(c.read) EXCEPT !.last_heartbeat = now]))
    /\ rcalls' = rcalls (-) Bag1(c)
    /\ lastOp' = Op("update_worker_heartbeat", c.who, "Ok", None)
    /\ UNCHANGED <<sessionVars, harnessVars, redis_tasks, redis_results, queueVars, now,
                   workerVars, queueHistory, beatAt, ticks>>

----------------------------------------------------------------------------
(* LocalTestMode: the harness on its own InMemoryQueueClient *)

\* start(), lines 41-46: the guard on the running flag
HarnessStart(num_workers) ==
    /\ IF harness.running
       THEN /\ lastOp' = Op("harness_start", "-", "Err: Local test mode already running", None)
            /\ UNCHANGED harness
       ELSE /\ harness' = [running |-> TRUE, num_workers |-> num_workers, registered |-> 0,
                           stop |-> "-"]
            /\ lastOp' = Quiet
    /\ UNCHANGED <<sessionVars, redisVars, queueVars, now, workerVars, queueHistory, beatAt,
                   ticks, sim>>

\* start() of the worker the harness created i-th has returned
Started(i) == BagCardinality(hbLoops[HarnessWorker[i]]) > 0

\* start(), lines 51-89: the next round of the loop registers the synthetic
\* WorkerInfo of its worker; the round before has started its worker
HarnessRegister ==
    /\ harness.running
    /\ harness.registered < harness.num_workers
    /\ harness.registered > 0 => Started(harness.registered)
    /\ workers' = register_worker(workers,
                                  LocalWorkerInfo(LocalWorkerId[harness.registered + 1], now))
    /\ harness' = [harness EXCEPT !.registered = @ + 1]
    /\ lastOp' = Quiet
    /\ UNCHANGED <<sessionVars, redisVars, tasks, results, now, workerVars, queueHistory, beatAt,
                   ticks, sim>>

\* start() has returned Ok: every worker is registered and started
HarnessStarted ==
    /\ harness.running
    /\ harness.registered = harness.num_workers
    /\ \A i \in 1..harness.num_workers : Started(i)

\* stop(), lines 128-130: clear the running flag; start() takes &mut self, so
\* it has returned
HarnessStop ==
    /\ HarnessStarted
    /\ harness' = [harness EXCEPT !.running = FALSE, !.stop = "stopping"]
    /\ lastOp' = Quiet
    /\ UNCHANGED <<sessionVars, redisVars, queueVars, now, workerVars, queueHistory, beatAt,
                   ticks, sim>>

\* stop(), lines 134-137: worker.stop() on the i-th worker, after it returned
\* for the workers before
HarnessStopWorker(i) ==
    /\ harness.stop = "stopping"
    /\ \A j \in 1..(i - 1) : Stopped(HarnessWorker[j])
    /\ \/ running[HarnessWorker[i]] /\ StopFlag(HarnessWorker[i])
       \/ StopRemove(HarnessWorker[i])

\* stop(), lines 139-140: every worker.stop() returned Ok
HarnessStopReturn ==
    /\ harness.stop = "stopping"
    /\ \A i \in 1..harness.num_workers : Stopped(HarnessWorker[i])
    /\ harness' = [harness EXCEPT !.stop = "returned"]
    /\ lastOp' = Op("harness_stop", "-", "Ok", None)
    /\ UNCHANGED <<sessionVars, redisVars, queueVars, now, workerVars, queueHistory, beatAt,
                   ticks, sim>>

\* mutant: a name outside the scenarios is taken for a health check
SimulateTask_default_scenario(task_type, limit) ==
    /\ sim.pc # "poll"
    /\ sim.made < limit
    /\ BagCardinality(published) < Cardinality(TaskIds)
    /\ LET task == TaskMessage(FreshTaskId(BagCardinality(published) + 1),
                               IF task_type \in Scenarios THEN ScenarioType(task_type)
                               ELSE TaskType("HealthCheck"), 5, now)
       IN  /\ tasks' = publish_task(tasks, task)
           /\ published' = published (+) Bag1(task)
           /\ sim' = Simulate("poll", sim.made + 1, task_type, Some(task.id), 0, 0, None)
           /\ lastOp' = Op("publish_task", "simulate_task", "Ok", Some(task))
    /\ UNCHANGED <<sessionVars, redisVars, results, workers, now, workerVars, delivered, polls,
                   resultLog, beatAt, ticks, harness>>

\* simulate_task, lines 149-186: the task of the scenario is built and published,
\* a name outside the scenarios returns the error
SimulateTask(task_type, limit) ==
    /\ sim.pc # "poll"
    /\ sim.made < limit
    /\ IF task_type \in Scenarios
       THEN /\ BagCardinality(published) < Cardinality(TaskIds)
            /\ LET task == TaskMessage(FreshTaskId(BagCardinality(published) + 1),
                                       ScenarioType(task_type), 5, now)
               IN  /\ tasks' = publish_task(tasks, task)
                   /\ published' = published (+) Bag1(task)
                   /\ sim' = Simulate("poll", sim.made + 1, task_type, Some(task.id), 0, 0, None)
                   /\ lastOp' = Op("publish_task", "simulate_task", "Ok", Some(task))
       ELSE /\ sim' = Simulate("returned", sim.made + 1, task_type, None, 0, 0,
                               Some(ResultErr(<<"Unknown task type: ", task_type>>)))
            /\ lastOp' = Op("simulate_task", task_type, "Err: Unknown task type", None)
            /\ UNCHANGED <<tasks, published>>
    /\ UNCHANGED <<sessionVars, redisVars, results, workers, now, workerVars, delivered, polls,
                   resultLog, beatAt, ticks, harness>>

\* simulate_task, lines 190-199: what the call returns for the result it took
simulate_returns(result) ==
    IF result.success THEN ResultOk
    ELSE ResultErr(IF result.error # None THEN result.error[1] ELSE <<"Unknown error">>)

\* mutant: the call gives up at the first consume_result that finds nothing
SimulatePoll_impatient ==
    /\ sim.pc = "poll"
    /\ LET r == consume_result(results, sim.task_id[1])
           ret == IF r.ret # None THEN simulate_returns(r.ret[1])
                  ELSE ResultErr(<<"Task timeout after 30 seconds">>)
       IN  /\ results' = r.rest
           /\ polls' = [polls EXCEPT ![sim.task_id[1]] =
                           [calls |-> @.calls + 1,
                            hits |-> @.hits + (IF r.ret # None THEN 1 ELSE 0)]]
           /\ sim' = [sim EXCEPT !.pc = "returned", !.attempts = @ + 1, !.polled = @ + 1,
                                 !.res = Some(ret)]
           /\ lastOp' = Op("simulate_task", sim.task_type,
                           IF ret.is_ok THEN "Ok" ELSE "Err", r.ret)
    /\ UNCHANGED <<sessionVars, redisVars, tasks, workers, now, workerVars, published, delivered,
                   resultLog, beatAt, ticks, harness>>

\* simulate_task, lines 188-205: one round of the loop: sleep a second, then
\* consume_result; a result ends the call, else attempts is counted and
\* compared
SimulatePoll ==
    /\ sim.pc = "poll"
    /\ LET r == consume_result(results, sim.task_id[1])
           attempts == sim.attempts + 1
           over == r.ret # None \/ attempts > PollAttempts
           ret == IF r.ret # None THEN simulate_returns(r.ret[1])
                  ELSE ResultErr(<<"Task timeout after 30 seconds">>)
       IN  /\ results' = r.rest
           /\ polls' = [polls EXCEPT ![sim.task_id[1]] =
                           [calls |-> @.calls + 1,
                            hits |-> @.hits + (IF r.ret # None THEN 1 ELSE 0)]]
           /\ sim' = [sim EXCEPT !.pc = IF over THEN "returned" ELSE "poll",
                                 !.attempts = IF r.ret # None THEN @ ELSE attempts,
                                 !.polled = @ + 1,
                                 !.res = IF over THEN Some(ret) ELSE None]
           /\ lastOp' = IF over
                        THEN Op("simulate_task", sim.task_type,
                                IF ret.is_ok THEN "Ok" ELSE "Err", r.ret)
                        ELSE Op("consume_result", "simulate_task", "Ok", r.ret)
    /\ UNCHANGED <<sessionVars, redisVars, tasks, workers, now, workerVars, published, delivered,
                   resultLog, beatAt, ticks, harness>>

RECURSIVE SumOf(_, _)
\* Iterator::sum of f over the entries ids
SumOf(f, ids) ==
    IF ids = {} THEN 0
    ELSE LET id == CHOOSE x \in ids : TRUE IN f[id] + SumOf(f, ids \ {id})

\* get_stats, lines 209-230: the counts over what get_active_workers returns
get_stats(m, t) ==
    LET active == get_active_workers(m, t)
    IN  [active_workers |-> Cardinality(active),
         total_tasks |-> SumOf([id \in active |-> Len(m[id][1].current_tasks)], active)]

----------------------------------------------------------------------------
(* SessionManager: the sessions lock is a tokio RwLock; a section under it is *)
(* one step, and distribute_task keeps its write lock while it forwards       *)

\* find_available_session, lines 99-103: the ids of the Idle sessions, in the
\* order of sessions.iter()
idle_sessions(m, ord) == SelectSeq(ord, LAMBDA id : m[id][1].status = "Idle")

\* mutant: the round-robin index is used without the modulo
find_available_session_no_wrap(strategy, m, ord, index, rng) ==
    LET idle == idle_sessions(m, ord)
    IN  IF idle = <<>> \/ index >= Len(idle)
        THEN [res |-> "Err: No available sessions", selected |-> None, index |-> index]
        ELSE [res |-> "Ok", selected |-> Some(idle[index + 1]), index |-> index + 1]

\* mutant: the selection is the first session of the registry, Idle or not
find_available_session_first_of_all(strategy, m, ord, index, rng) ==
    IF idle_sessions(m, ord) = <<>>
    THEN [res |-> "Err: No available sessions", selected |-> None, index |-> index]
    ELSE [res |-> "Ok", selected |-> Some(ord[1]), index |-> index]

\* mutant: a session counts as available unless it is Working
find_available_session_not_working(strategy, m, ord, index, rng) ==
    LET free == SelectSeq(ord, LAMBDA id : m[id][1].status # "Working")
    IN  IF free = <<>>
        THEN [res |-> "Err: No available sessions", selected |-> None, index |-> index]
        ELSE [res |-> "Ok", selected |-> Some(free[(index % Len(free)) + 1]),
              index |-> (index + 1) % Len(free)]

\* find_available_session: the error when no session is Idle, else the selection
\* of the strategy; rng is the draw of the random strategy
find_available_session(strategy, m, ord, index, rng) ==
    LET idle == idle_sessions(m, ord)
    IN  IF idle = <<>>
        THEN [res |-> "Err: No available sessions", selected |-> None, index |-> index]
        ELSE CASE strategy = "RoundRobin" ->
                      [res |-> "Ok", selected |-> Some(idle[(index % Len(idle)) + 1]),
                       index |-> (index + 1) % Len(idle)]
               [] strategy = "Random" ->
                      [res |-> "Ok", selected |-> Some(idle[(rng % Len(idle)) + 1]),
                       index |-> index]
               [] strategy = "LeastLoaded" ->
                      [res |-> "Ok", selected |-> Some(idle[1]), index |-> index]

\* mutant: handle_session_failure keeps its write guard on sessions until it
\* returns (no drop at line 142)
WriteLocked_until_failure_handled ==
    \E c \in BagToSet(mcalls) :
        c.pc = "forward" \/ (c.op = "handle_session_failure" /\ c.pc # "return")

\* a distribute_task call holds the write lock on sessions: lines 73-94
WriteLocked == \E c \in BagToSet(mcalls) : c.pc = "forward"

\* a find_available_session call holds the read lock on sessions while it
\* waits for the write lock on round_robin_index: lines 98-111
ReadLocked == \E c \in BagToSet(mcalls) : c.pc = "index"

\* the sequences that have id at one more place than ord: a HashMap insert puts
\* the new key anywhere in the iteration order
InsertAnywhere(ord, id) ==
    {SubSeq(ord, 1, k) \o <<id>> \o SubSeq(ord, k + 1, Len(ord)) : k \in 0..Len(ord)}

\* mutant: register_session starts the round robin over
RegisterSession_restart_round_robin(opencode_server_id, limit, inflight) ==
    /\ Len(order) < limit
    /\ BagCardinality(mcalls) < inflight
    /\ ~WriteLocked /\ ~ReadLocked
    /\ LET id == Len(order) + 1
       IN  /\ sessions' = [sessions EXCEPT ![id] = Some(OrchestratorSession(id, opencode_server_id))]
           /\ order' \in InsertAnywhere(order, id)
           /\ lastOp' = Op("register_session", opencode_server_id, "Ok", Some(id))
    /\ round_robin_index' = 0
    /\ UNCHANGED <<queueVars, now, workerVars, queueHistory, beatAt, ticks, harnessVars, redisVars,
                   pending_tasks, mcalls, issued, distLog>>

\* register_session, lines 35-53
RegisterSession(opencode_server_id, limit, inflight) ==
    /\ Len(order) < limit
    /\ BagCardinality(mcalls) < inflight
    /\ ~WriteLocked /\ ~ReadLocked
    /\ LET id == Len(order) + 1
       IN  /\ sessions' = [sessions EXCEPT ![id] = Some(OrchestratorSession(id, opencode_server_id))]
           /\ order' \in InsertAnywhere(order, id)
           /\ lastOp' = Op("register_session", opencode_server_id, "Ok", Some(id))
    /\ UNCHANGED <<queueVars, now, workerVars, queueHistory, beatAt, ticks, harnessVars, redisVars,
                   round_robin_index, pending_tasks, mcalls, issued, distLog>>

\* distribute_task, lines 55-70: build the Task, find an available session; on
\* the error of find_available_session the call returns it
DistributeTask(prompt, limit, inflight) ==
    /\ issued < limit
    /\ BagCardinality(mcalls) < inflight
    /\ ~WriteLocked
    /\ \E rng \in (IF distribution_strategy = "Random" THEN 0..(MaxSessions - 1) ELSE {0}) :
           LET task == Task(issued + 1, prompt)
               f == find_available_session(distribution_strategy, sessions, order,
                                           round_robin_index, rng)
           IN  /\ issued' = issued + 1
               /\ round_robin_index' = f.index
               /\ IF f.res = "Ok"
                  THEN /\ mcalls' = mcalls (+) Bag1(Call("distribute_task", "assign", None, task,
                                                         f.selected, None))
                       /\ lastOp' = Op("find_available_session", prompt, "Ok", f.selected)
                       /\ UNCHANGED distLog
                  ELSE /\ lastOp' = Op("distribute_task", prompt, f.res, None)
                       /\ distLog' = Append(distLog, Returned(f.res, None, None, None))
                       /\ UNCHANGED mcalls
    /\ UNCHANGED <<queueVars, now, workerVars, queueHistory, beatAt, ticks, harnessVars, redisVars,
                   sessions, order, pending_tasks>>

\* distribute_task, lines 73-77: take the write lock, give the task to the
\* selected session and set it Working, whatever its status is by now
AssignTask(c) ==
    /\ BagIn(c, mcalls)
    /\ c.pc = "assign"
    /\ ~WriteLocked /\ ~ReadLocked
    /\ sessions' = [sessions EXCEPT ![c.selected[1]] =
                       Some([@[1] EXCEPT !.task = Some(c.task), !.status = "Working"])]
    /\ mcalls' = Swap(mcalls, c, [c EXCEPT !.pc = "forward"])
    /\ lastOp' = Op("assign", c.task.prompt, "Ok", c.selected)
    /\ UNCHANGED <<queueVars, now, workerVars, queueHistory, beatAt, ticks, harnessVars, redisVars,
                   order, round_robin_index, pending_tasks, issued, distLog>>

\* what forwarding the prompt can come to: get_server finds no server,
\* send_prompt returns Ok, send_prompt returns Err
Forwarding == {"no server", "sent", "send failed"}

\* mutant: a failed forwarding takes the task back and sets the session Idle
ForwardPrompt_roll_back(c, forwarded) ==
    /\ BagIn(c, mcalls)
    /\ c.pc = "forward"
    /\ sessions' = IF forwarded = "sent" THEN sessions
                   ELSE [sessions EXCEPT ![c.selected[1]] =
                            Some([@[1] EXCEPT !.task = None, !.status = "Idle"])]
    /\ lastOp' = Op("distribute_task", c.task.prompt, "Ok", Some(c.task.id))
    /\ IF c.op = "distribute_task"
       THEN /\ mcalls' = mcalls (-) Bag1(c)
            /\ distLog' = Append(distLog, Returned("Ok", Some(c.task.id), c.selected,
                                                   Some(forwarded)))
       ELSE /\ mcalls' = Swap(mcalls, c, [c EXCEPT !.pc = "return"])
            /\ UNCHANGED distLog
    /\ UNCHANGED <<queueVars, now, workerVars, queueHistory, beatAt, ticks, harnessVars, redisVars,
                   order, round_robin_index, pending_tasks, issued>>

\* distribute_task, lines 79-94: forward the prompt under the write lock; whatever
\* comes of it, release the lock and return Ok(task_id)
ForwardPrompt(c, forwarded) ==
    /\ BagIn(c, mcalls)
    /\ c.pc = "forward"
    /\ lastOp' = Op("distribute_task", c.task.prompt, "Ok", Some(c.task.id))
    /\ IF c.op = "distribute_task"
       THEN /\ mcalls' = mcalls (-) Bag1(c)
            /\ distLog' = Append(distLog, Returned("Ok", Some(c.task.id), c.selected,
                                                   Some(forwarded)))
       ELSE /\ mcalls' = Swap(mcalls, c, [c EXCEPT !.pc = "return"])
            /\ UNCHANGED distLog
    /\ UNCHANGED <<queueVars, now, workerVars, queueHistory, beatAt, ticks, harnessVars, redisVars,
                   sessions, order, round_robin_index, pending_tasks, issued>>

\* mutant: handle_session_failure records a failed session under an id it does
\* not find
HandleSessionFailure_insert(session_id, inflight) ==
    /\ BagCardinality(mcalls) < inflight
    /\ ~WriteLocked /\ ~ReadLocked
    /\ sessions[session_id] = None
    /\ sessions' = [sessions EXCEPT ![session_id] =
                       Some([OrchestratorSession(session_id, "server-1")
                                EXCEPT !.status = "Failed"])]
    /\ lastOp' = Op("handle_session_failure", session_id, "Ok", None)
    /\ UNCHANGED <<queueVars, now, workerVars, queueHistory, beatAt, ticks, harnessVars, redisVars,
                   order, round_robin_index, pending_tasks, mcalls, issued, distLog>>

\* handle_session_failure, lines 131-142 and 150-153: under the write lock, the
\* not-found error for an unknown id, else the session is Failed and loses its
\* task; with an incomplete task the call goes on, else it returns Ok
HandleSessionFailure(session_id, inflight) ==
    /\ BagCardinality(mcalls) < inflight
    /\ ~WriteLocked /\ ~ReadLocked
    /\ IF sessions[session_id] = None
       THEN /\ lastOp' = Op("handle_session_failure", session_id, "Err: Session not found", None)
            /\ UNCHANGED <<sessions, mcalls>>
       ELSE LET failed_task == sessions[session_id][1].task
            IN  /\ sessions' = [sessions EXCEPT ![session_id] =
                                   Some([@[1] EXCEPT !.status = "Failed", !.task = None])]
                /\ IF failed_task # None /\ failed_task[1].completed_at = None
                   THEN /\ mcalls' = mcalls (+) Bag1(Call("handle_session_failure", "requeue",
                                                          Some(session_id), failed_task[1],
                                                          None, Some(sessions)))
                        /\ lastOp' = Quiet
                   ELSE /\ lastOp' = Op("handle_session_failure", session_id, "Ok", None)
                        /\ UNCHANGED mcalls
    /\ UNCHANGED <<queueVars, now, workerVars, queueHistory, beatAt, ticks, harnessVars, redisVars,
                   order, round_robin_index, pending_tasks, issued, distLog>>

\* handle_session_failure, line 143: push the failed task to pending_tasks
RequeueTask(c) ==
    /\ BagIn(c, mcalls)
    /\ c.pc = "requeue"
    /\ pending_tasks' = Append(pending_tasks, c.task)
    /\ mcalls' = Swap(mcalls, c, [c EXCEPT !.pc = "find"])
    /\ lastOp' = Quiet
    /\ UNCHANGED <<queueVars, now, workerVars, queueHistory, beatAt, ticks, harnessVars, redisVars,
                   sessions, order, round_robin_index, issued, distLog>>

\* handle_session_failure, line 146: distribute_task(task.prompt), lines 55-70; its
\* error is dropped by .ok()
RetryDistribute(c) ==
    /\ BagIn(c, mcalls)
    /\ c.pc = "find"
    /\ ~WriteLocked
    /\ \E rng \in (IF distribution_strategy = "Random" THEN 0..(MaxSessions - 1) ELSE {0}) :
           LET task == Task(issued + 1, c.task.prompt)
               f == find_available_session(distribution_strategy, sessions, order,
                                           round_robin_index, rng)
           IN  /\ issued' = issued + 1
               /\ round_robin_index' = f.index
               /\ IF f.res = "Ok"
                  THEN /\ mcalls' = Swap(mcalls, c, [c EXCEPT !.pc = "assign", !.task = task,
                                                              !.selected = f.selected])
                       /\ lastOp' = Op("find_available_session", task.prompt, "Ok", f.selected)
                  ELSE /\ mcalls' = Swap(mcalls, c, [c EXCEPT !.pc = "return"])
                       /\ lastOp' = Op("distribute_task", task.prompt, f.res, None)
    /\ UNCHANGED <<queueVars, now, workerVars, queueHistory, beatAt, ticks, harnessVars, redisVars,
                   sessions, order, pending_tasks, distLog>>

\* handle_session_failure, line 150: Ok(())
ReturnFailureHandled(c) ==
    /\ BagIn(c, mcalls)
    /\ c.pc = "return"
    /\ mcalls' = mcalls (-) Bag1(c)
    /\ lastOp' = Op("handle_session_failure", c.session_id[1], "Ok", None)
    /\ UNCHANGED <<queueVars, now, workerVars, queueHistory, beatAt, ticks, harnessVars, redisVars,
                   sessions, order, round_robin_index, pending_tasks, issued, distLog>>

\* list_sessions, lines 192-194: the sessions, cloned under the read lock
ListSessions ==
    /\ ~WriteLocked
    /\ lastOp' = Op("list_sessions", "-", "Ok",
                    Some({sessions[id][1] : id \in {i \in SessionIds : sessions[i] # None}}))
    /\ UNCHANGED <<queueVars, now, workerVars, queueHistory, beatAt, ticks, harnessVars, redisVars,
                   sessionVars>>

\* get_session_state, lines 188-190: the session of that id, cloned under the
\* read lock
GetSessionState(session_id) ==
    /\ ~WriteLocked
    /\ lastOp' = Op("get_session_state", session_id, "Ok", sessions[session_id])
    /\ UNCHANGED <<queueVars, now, workerVars, queueHistory, beatAt, ticks, harnessVars, redisVars,
                   sessionVars>>

\* rebalance_sessions, lines 158-167: 1 for a session with a task, 0 for one
\* without
task_counts(m) ==
    [id \in {i \in DOMAIN m : m[i] # None} |-> IF m[id][1].task # None THEN 1 ELSE 0]

\* rebalance_sessions, lines 172-185: Ok in every case; (history) the spread
\* max_tasks - min_tasks it compares with 1, None without sessions
rebalance_sessions(m) ==
    LET counts == task_counts(m)
        values == {counts[id] : id \in DOMAIN counts}
        max_tasks == CHOOSE x \in values : \A y \in values : y <= x
        min_tasks == CHOOSE x \in values : \A y \in values : x <= y
    IN  [res |-> "Ok", spread |-> IF values = {} THEN None ELSE Some(max_tasks - min_tasks)]

\* mutant: rebalance_sessions returns the Failed sessions to Idle
RebalanceSessions_revives ==
    /\ ~WriteLocked
    /\ LET r == rebalance_sessions(sessions)
       IN  lastOp' = Op("rebalance_sessions", "-", r.res, r.spread)
    /\ sessions' = [id \in DOMAIN sessions |->
                       IF sessions[id] # None /\ sessions[id][1].status = "Failed"
                       THEN Some([sessions[id][1] EXCEPT !.status = "Idle"])
                       ELSE sessions[id]]
    /\ UNCHANGED <<queueVars, now, workerVars, queueHistory, beatAt, ticks, harnessVars, redisVars,
                   order, round_robin_index, pending_tasks, mcalls, issued, distLog>>

\* rebalance_sessions, lines 156-186: the counts are taken under the read lock
RebalanceSessions ==
    /\ ~WriteLocked
    /\ LET r == rebalance_sessions(sessions)
       IN  lastOp' = Op("rebalance_sessions", "-", r.res, r.spread)
    /\ UNCHANGED <<queueVars, now, workerVars, queueHistory, beatAt, ticks, harnessVars, redisVars,
                   sessionVars>>

\* distribute_task, lines 55-69: the Task is built; find_available_session is
\* about to ask for the read lock on sessions
DistributeCall(prompt, limit, inflight) ==
    /\ issued < limit
    /\ BagCardinality(mcalls) < inflight
    /\ issued' = issued + 1
    /\ mcalls' = mcalls (+) Bag1(Call("distribute_task", "read", None, Task(issued + 1, prompt),
                                      None, None))
    /\ lastOp' = Quiet
    /\ UNCHANGED <<queueVars, now, workerVars, queueHistory, beatAt, ticks, harnessVars, redisVars,
                   sessions, order, round_robin_index, pending_tasks, distLog>>

\* handle_session_failure, line 146: distribute_task(task.prompt), lines 55-69
RetryCall(c) ==
    /\ BagIn(c, mcalls)
    /\ c.pc = "find"
    /\ issued' = issued + 1
    /\ mcalls' = Swap(mcalls, c, [c EXCEPT !.pc = "read", !.task = Task(issued + 1, c.task.prompt)])
    /\ lastOp' = Quiet
    /\ UNCHANGED <<queueVars, now, workerVars, queueHistory, beatAt, ticks, harnessVars, redisVars,
                   sessions, order, round_robin_index, pending_tasks, distLog>>

\* find_available_session, lines 98-107: under the read lock on sessions, the
\* error when no session is Idle; else the call goes on to the index, the read
\* lock held
FindIdle(c) ==
    /\ BagIn(c, mcalls)
    /\ c.pc = "read"
    /\ ~WriteLocked
    /\ IF idle_sessions(sessions, order) # <<>>
       THEN /\ mcalls' = Swap(mcalls, c, [c EXCEPT !.pc = "index"])
            /\ lastOp' = Quiet
            /\ UNCHANGED distLog
       ELSE /\ lastOp' = Op("distribute_task", c.task.prompt, "Err: No available sessions", None)
            /\ IF c.op = "distribute_task"
               THEN /\ mcalls' = mcalls (-) Bag1(c)
                    /\ distLog' = Append(distLog, Returned("Err: No available sessions",
                                                           None, None, None))
               ELSE /\ mcalls' = Swap(mcalls, c, [c EXCEPT !.pc = "return"])
                    /\ UNCHANGED distLog
    /\ UNCHANGED <<queueVars, now, workerVars, queueHistory, beatAt, ticks, harnessVars, redisVars,
                   sessions, order, round_robin_index, pending_tasks, issued>>

\* find_available_session, lines 109-128: under the write lock on
\* round_robin_index, the selection; both locks are released on return
FindSelect(c) ==
    /\ BagIn(c, mcalls)
    /\ c.pc = "index"
    /\ \E rng \in (IF distribution_strategy = "Random" THEN 0..(MaxSessions - 1) ELSE {0}) :
           LET f == find_available_session(distribution_strategy, sessions, order,
                                           round_robin_index, rng)
           IN  /\ round_robin_index' = f.index
               /\ mcalls' = Swap(mcalls, c, [c EXCEPT !.pc = "assign", !.selected = f.selected])
               /\ lastOp' = Op("find_available_session", c.task.prompt, "Ok", f.selected)
    /\ UNCHANGED <<queueVars, now, workerVars, queueHistory, beatAt, ticks, harnessVars, redisVars,
                   sessions, order, pending_tasks, issued, distLog>>

\* one step of one SessionManager call in flight, each lock taken in a step of
\* its own
LockStep(outcomes) ==
    \E c \in BagToSet(mcalls) :
        \/ FindIdle(c)
        \/ FindSelect(c)
        \/ AssignTask(c)
        \/ \E forwarded \in outcomes : ForwardPrompt(c, forwarded)
        \/ RequeueTask(c)
        \/ RetryCall(c)
        \/ ReturnFailureHandled(c)

\* one step of one SessionManager call in flight, the forwarding coming to one
\* of outcomes
CallStep(outcomes) ==
    \E c \in BagToSet(mcalls) :
        \/ AssignTask(c)
        \/ \E forwarded \in outcomes : ForwardPrompt(c, forwarded)
        \/ RequeueTask(c)
        \/ RetryDistribute(c)
        \/ ReturnFailureHandled(c)

----------------------------------------------------------------------------
(* Specifications *)

\* the task list under its callers; every submitter reads a later clock
NextTasks ==
    \/ \E id \in TaskIds, p \in Priorities :
           PublishTask(id, TaskType("HealthCheck"), p, BagCardinality(published), MaxPublished)
    \/ ConsumeTask("consumer")

SpecTasks == Init /\ [][NextTasks]_vars

\* the same calls made on an InMemoryQueueClient and on a RedisQueueClient
NextBrokers ==
    \/ \E id \in TaskIds, p \in Priorities :
           PublishTaskToBoth(id, TaskType("HealthCheck"), p, BagCardinality(published),
                             MaxMirrored)
    \/ ConsumeTaskFromBoth

SpecBrokers == Init /\ [][NextBrokers]_vars

\* the callers that poll for results
Pollers == {"poller-1", "poller-2"}

\* results published through the Redis client, and two callers polling for them
NextRedisResults ==
    \/ \E id \in TaskIds, w \in Workers : RedisPublishResult(TaskResult(id, w, TRUE, None))
    \/ \E caller \in Pollers, id \in TaskIds : RedisConsumeResultGet(caller, id)
    \/ \E c \in BagToSet(rcalls) : RedisConsumeResultDel(c)

SpecRedisResults == Init /\ [][NextRedisResults]_vars

\* one worker on a Redis client, started and stopped while its heartbeat loops run
NextRedisDirectory ==
    \/ \E d \in ClockSteps : Tick(d)
    \/ StartGuard("w1", MaxStarts)
    \/ RedisStartRegister("w1")
    \/ StopFlag("w1")
    \/ RedisStopRemove("w1")
    \/ RedisHeartbeatGet("w1")
    \/ \E c \in BagToSet(rcalls) : RedisHeartbeatSet(c)

SpecRedisDirectory == Init /\ [][NextRedisDirectory]_vars

\* the result map under its callers
NextResults ==
    \/ \E id \in TaskIds, w \in Workers, s \in BOOLEAN :
           PublishResult(TaskResult(id, w, s, IF s THEN None ELSE Some(<<"failed">>)))
    \/ \E id \in TaskIds : ConsumeResult(id)

SpecResults == Init /\ [][NextResults]_vars

\* a caller other than a heartbeat loop calls update_worker_heartbeat
UpdateWorkerHeartbeat(worker_id) ==
    /\ LET r == update_worker_heartbeat(workers, worker_id, now)
       IN  /\ workers' = r.rest
           /\ beatAt' = IF r.res = "Ok" THEN [beatAt EXCEPT ![worker_id] = Some(now)]
                        ELSE beatAt
           /\ lastOp' = Op("update_worker_heartbeat", worker_id, r.res, None)
    /\ UNCHANGED <<sessionVars, harnessVars, redisVars, tasks, results, now, workerVars, queueHistory, ticks>>

\* the worker directory under the clock, start(), stop() and the heartbeats of one
\* worker, and heartbeat calls for any id
NextDirectory ==
    \/ \E d \in ClockSteps : Tick(d)
    \/ StartGuard("w1", MaxStarts)
    \/ StartRegister("w1")
    \/ StopFlag("w1")
    \/ StopRemove("w1")
    \/ HeartbeatStep("w1")
    \/ \E id \in Workers : UpdateWorkerHeartbeat(id)

SpecDirectory == Init /\ [][NextDirectory]_vars

\* one worker started and stopped repeatedly while tasks arrive
NextLifecycle ==
    \/ PublishTask("t1", TaskType("HealthCheck"), 5, 0, MaxQueued)
    \/ StartGuard("w1", MaxStarts)
    \/ StartRegister("w1")
    \/ StopFlag("w1")
    \/ StopRemove("w1")
    \/ HeartbeatStep("w1")
    \/ TaskLoopStep("w1", BOOLEAN)

SpecLifecycle == Init /\ [][NextLifecycle]_vars

\* the task loops of one worker started and stopped repeatedly while tasks arrive
NextTaskLoops ==
    \/ PublishTask("t1", TaskType("HealthCheck"), 5, 0, MaxQueued)
    \/ StartGuard("w1", MaxStarts)
    \/ StartRegister("w1")
    \/ StopFlag("w1")
    \/ StopRemove("w1")
    \/ TaskLoopStep("w1", BOOLEAN)

SpecTaskLoops == Init /\ [][NextTaskLoops]_vars

\* the runtime keeps polling the spawned task loops, also each one that holds a
\* task, and the handlers return
FairTaskLoops ==
    /\ SpecTaskLoops
    /\ WF_vars(TaskLoopStep("w1", BOOLEAN))
    /\ WF_vars(\E l \in BagToSet(taskLoops["w1"]) :
                   \/ ProcessTaskBegin("w1", l)
                   \/ \E success \in BOOLEAN : ProcessTaskEnd("w1", l, success)
                   \/ TaskLoopPublish("w1", l))

\* a pool of workers on one queue, each started once
NextPool ==
    \/ \E id \in TaskIds : PublishTask(id, TaskType("HealthCheck"), 5, 0, MaxPoolTasks)
    \/ \E w \in Workers :
           \/ StartGuard(w, 1)
           \/ StartRegister(w)
           \/ TaskLoopStep(w, BOOLEAN)

SpecPool == Init /\ [][NextPool]_vars

\* one worker restarted until it has one task loop more than max_concurrent_tasks,
\* with as many tasks
NextRestart ==
    \/ PublishTask("t1", TaskType("HealthCheck"), 5, 0, max_concurrent_tasks + 1)
    \/ StartGuard("w1", max_concurrent_tasks + 1)
    \/ StartRegister("w1")
    \/ StopFlag("w1")
    \/ StopRemove("w1")
    \/ TaskLoopStep("w1", {TRUE})

SpecRestart == Init /\ [][NextRestart]_vars

\* one worker, started once, fed with tasks of every type
NextHandlers ==
    \/ \E id \in TaskIds, task_type \in TaskTypes : PublishTask(id, task_type, 5, 0, MaxHandled)
    \/ StartGuard("w1", 1)
    \/ StartRegister("w1")
    \/ TaskLoopStep("w1", BOOLEAN)

SpecHandlers == Init /\ [][NextHandlers]_vars

\* one step of the worker the harness created i-th; the handler of health checks
\* returns Ok
HarnessWorkerStep(i) ==
    \/ StartGuard(HarnessWorker[i], 1)
    \/ StartRegister(HarnessWorker[i])
    \/ TaskLoopStep(HarnessWorker[i], {TRUE})

\* the harness started with one or two workers, and simulate_task called at
\* any time
NextHarness ==
    \/ \E n \in 1..Len(HarnessWorker) : HarnessStart(n)
    \/ HarnessRegister
    \/ \E i \in 1..harness.registered : HarnessWorkerStep(i)
    \/ \E name \in SimulatedNames : SimulateTask(name, MaxSimulated)
    \/ SimulatePoll

SpecHarness == Init /\ [][NextHarness]_vars

\* the harness started once with one or two workers and stopped once, while
\* the clock advances
NextHarnessStop ==
    \/ \E d \in ClockSteps : Tick(d)
    \/ \E n \in 1..Len(HarnessWorker) : harness.stop = "-" /\ HarnessStart(n)
    \/ HarnessRegister
    \/ \E i \in 1..harness.registered : HarnessWorkerStep(i)
    \/ \E i \in 1..harness.registered : HeartbeatStep(HarnessWorker[i])
    \/ HarnessStop
    \/ \E i \in 1..harness.num_workers : HarnessStopWorker(i)
    \/ HarnessStopReturn

SpecHarnessStop == Init /\ [][NextHarnessStop]_vars

\* a task loop of a running worker holds a task or finds one in the queue
InProgress ==
    \E w \in Workers : \E l \in BagToSet(taskLoops[w]) :
        l.task # None \/ (tasks # <<>> /\ running[w])

\* the 30 seconds a call sleeps before its last consume_result outlast the
\* second a task loop sleeps on an empty queue and the 100 ms of a health check
Timely == sim.attempts < PollAttempts \/ ~InProgress

\* the harness under that timing
NextTimelyHarness ==
    \/ \E n \in 1..Len(HarnessWorker) : HarnessStart(n)
    \/ HarnessRegister
    \/ \E i \in 1..harness.registered : HarnessWorkerStep(i)
    \/ \E name \in SimulatedNames : SimulateTask(name, MaxSimulated)
    \/ Timely /\ SimulatePoll

SpecTimelyHarness == Init /\ [][NextTimelyHarness]_vars

\* the runtime keeps polling the task loop of every worker and the
\* simulate_task call
FairHarness ==
    /\ SpecTimelyHarness
    /\ \A i \in 1..Len(HarnessWorker) : WF_vars(TaskLoopStep(HarnessWorker[i], {TRUE}))
    /\ WF_vars(Timely /\ SimulatePoll)

\* callers alternate between the two prompts
NextPrompt == IF issued % 2 = 0 THEN "Task 1" ELSE "Task 2"

\* sessions are registered, then prompts are distributed one call after the other
NextRoundRobin ==
    \/ issued = 0 /\ RegisterSession("server-1", MaxSessions, 1)
    \/ DistributeTask(NextPrompt, MaxDistributed, 1)
    \/ CallStep(Forwarding)

SpecRoundRobin == Init /\ [][NextRoundRobin]_vars

\* the session manager under sequential calls: a call begins when none is in flight
NextSessionsSeq ==
    \/ RegisterSession("server-1", MaxSessions, 1)
    \/ DistributeTask(NextPrompt, MaxPrompts, 1)
    \/ \E id \in SessionIds : HandleSessionFailure(id, 1)
    \/ CallStep({"sent"})

SpecSessionsSeq == Init /\ [][NextSessionsSeq]_vars

\* the session manager under calls of which two are in flight together
NextSessions ==
    \/ RegisterSession("server-1", MaxPrompts, 2)
    \/ DistributeTask("Task 1", MaxPrompts, 2)
    \/ \E id \in SessionIds : HandleSessionFailure(id, 2)
    \/ CallStep({"sent"})

SpecSessions == Init /\ [][NextSessions]_vars

\* the session registry under its commands: sessions for any server id, prompts
\* distributed meanwhile, and the registry read
NextRegistry ==
    \/ \E server \in ServerIds : RegisterSession(server, MaxSessions, 2)
    \/ DistributeTask("Task 1", MaxPrompts, 2)
    \/ ListSessions
    \/ \E id \in SessionIds : GetSessionState(id)
    \/ CallStep({"sent"})

SpecRegistry == Init /\ [][NextRegistry]_vars

\* every call of the session manager on two sessions, two calls in flight
\* together, each lock taken in a step of its own
NextLocks ==
    \/ RegisterSession("server-1", 2, 2)
    \/ DistributeCall("Task 1", MaxPrompts, 2)
    \/ \E id \in 1..2 : HandleSessionFailure(id, 2)
    \/ RebalanceSessions
    \/ ListSessions
    \/ \E id \in 1..2 : GetSessionState(id)
    \/ LockStep({"sent"})

SpecLocks == Init /\ [][NextLocks]_vars

\* two sessions, two prompts, and every call of the session manager, two calls
\* in flight together
NextLockOrder ==
    \/ RegisterSession("server-1", 2, 2)
    \/ DistributeCall("Task 1", 2, 2)
    \/ \E id \in 1..2 : HandleSessionFailure(id, 2)
    \/ RebalanceSessions
    \/ ListSessions
    \/ \E id \in 1..2 : GetSessionState(id)
    \/ LockStep({"sent"})

SpecLockOrder == Init /\ [][NextLockOrder]_vars

\* the runtime keeps polling the calls in flight, and the forwarding returns
FairLocks == SpecLockOrder /\ WF_vars(LockStep({"sent"}))

----------------------------------------------------------------------------
(* Properties of the task list (SpecTasks) *)

\* the task consume_task has just returned, if the last step was a consume_task
\* that returned one
JustConsumed == IF lastOp.op = "consume_task" THEN lastOp.val ELSE None

\* C1: consume_task always returns a pending task whose priority is the maximum
\* among all pending tasks, so tasks of pairwise distinct priorities come out in
\* strictly decreasing priority order (1, 9, 5 published: 9, 5, 1 consumed).
C1_ConsumeReturnsHighestPriority ==
    JustConsumed # None =>
        \A i \in DOMAIN tasks : JustConsumed[1].priority >= tasks[i].priority

\* C2: among pending tasks of equal priority, consume_task returns the one
\* published first: no task of the same priority published earlier is still pending.
C2_EqualPriorityFirstPublishedFirst ==
    JustConsumed # None =>
        \A i \in DOMAIN tasks :
            tasks[i].priority = JustConsumed[1].priority
                => tasks[i].created_at >= JustConsumed[1].created_at

----------------------------------------------------------------------------
(* Properties of the worker pool (SpecPool) *)

\* the bag of the elements of a Vec
SeqBag(v) == [x \in {v[i] : i \in DOMAIN v} |-> Cardinality({i \in DOMAIN v : v[i] = x})]

\* the tasks held by the task loops of w
Held(w) == {l \in BagToSet(taskLoops[w]) : l.task # None}

\* C3: with several workers consuming concurrently, every published entry is
\* returned by consume_task at most once, nothing is returned that was not
\* published, and no more tasks are returned than were published: the returned
\* tasks and the pending ones together are exactly the published ones.
C3_EachTaskConsumedAtMostOnce ==
    /\ delivered \sqsubseteq published
    /\ BagCardinality(delivered) <= BagCardinality(published)
    /\ SeqBag(tasks) (+) delivered = published

\* C3 witness: two workers each hold a task they consumed, and nothing is pending
C3_Witness ==
    /\ Held("w1") # {}
    /\ Held("w2") # {}
    /\ BagCardinality(delivered) = 2
    /\ tasks = <<>>

----------------------------------------------------------------------------
(* Properties of the result map (SpecResults) *)

\* C4: after publish_result for T, the first consume_result(T) returns that
\* result and every later one, until the next publish_result for T, returns none;
\* before any publish_result for T every consume_result(T) returns none.
C4_ResultTakenExactlyOnce ==
    /\ \A t \in TaskIds :
           polls[t].hits = IF resultLog[t] # None /\ polls[t].calls > 0 THEN 1 ELSE 0
    /\ \A t \in TaskIds :
           lastOp.op = "consume_result" /\ lastOp.who = t /\ lastOp.val # None
               => lastOp.val = resultLog[t]

\* C4 witness: a second consume_result for a published result has returned none
C4_Witness ==
    \E t \in TaskIds :
        /\ resultLog[t] # None
        /\ polls[t].calls >= 2
        /\ lastOp = Op("consume_result", t, "Ok", None)

----------------------------------------------------------------------------
(* Properties of the worker directory (SpecDirectory) *)

\* C5: get_active_workers returns a registered worker exactly when fewer than 60
\* seconds have passed since its last heartbeat, the registration counting as the
\* first heartbeat.
C5_ActiveIffBeatWithinWindow ==
    \A w \in Workers :
        workers[w] # None =>
            (w \in get_active_workers(workers, now)
                <=> now - beatAt[w][1] < StaleSeconds * 1000)

\* the last step was an update_worker_heartbeat call for id
HeartbeatCalled(id) == lastOp'.op = "update_worker_heartbeat" /\ lastOp'.who = id

\* C6: update_worker_heartbeat for an id that is not in the worker directory
\* returns the not-found error and leaves the directory, the task list and the
\* result map unchanged; it never creates an entry.
C6_HeartbeatOfUnknownWorker ==
    [][\A id \in Workers :
          HeartbeatCalled(id) /\ workers[id] = None
              => /\ lastOp'.res = "Err: Worker not found"
                 /\ UNCHANGED <<tasks, results, workers>>]_vars

\* C6 witness: a heartbeat loop that outlived stop() has called
\* update_worker_heartbeat for its removed worker and got the error
C6_Witness ==
    /\ lastOp = Op("update_worker_heartbeat", "w1", "Err: Worker not found", None)
    /\ hbLoops["w1"] # EmptyBag
    /\ workers["w1"] = None

----------------------------------------------------------------------------
(* Properties of one worker (SpecRestart, SpecLifecycle, FairTaskLoops) *)

\* C7: the length of a worker's current_tasks never exceeds its max_concurrent_tasks.
C7_CurrentTasksWithinMax ==
    \A w \in Workers : Len(info[w].current_tasks) <= info[w].max_concurrent_tasks

\* the step is the running guard of a start() call on w
StartGuardStep(w) ==
    /\ lastOp'.who = w
    /\ \/ lastOp'.op = "start_guard"
       \/ lastOp'.op = "start" /\ lastOp'.res # "Ok"

\* C8: start() on a worker whose running flag is set returns "Worker already
\* running" and neither registers nor spawns a loop; start() on a worker whose flag
\* is clear sets it in the same locked section, so of two racing calls one passes.
C8_StartOnlyWhenNotRunning ==
    [][\A w \in Workers :
          StartGuardStep(w) =>
              IF running[w]
              THEN /\ lastOp' = Op("start", w, "Err: Worker already running", None)
                   /\ UNCHANGED <<queueVars, workerVars>>
              ELSE /\ lastOp'.op = "start_guard"
                   /\ running'[w]
                   /\ CopiesIn("start", calls'[w]) = CopiesIn("start", calls[w]) + 1]_vars

\* C8 witness: of two racing start() calls the first is past the guard and has
\* not registered yet, the second has returned the error
C8_Witness ==
    /\ lastOp = Op("start", "w1", "Err: Worker already running", None)
    /\ BagIn("start", calls["w1"])
    /\ hbLoops["w1"] = EmptyBag
    /\ workers["w1"] = None

\* C9: after stop() has returned (and start() is not called again) every
\* heartbeat loop stops on its next iteration: it calls update_worker_heartbeat
\* at most once more.
C9_HeartbeatLoopStopsAfterStop ==
    \A w \in Workers :
        Stopped(w) => \A l \in BagToSet(hbLoops[w]) : l.beats <= 1

----------------------------------------------------------------------------
(* Properties of task processing (FairTaskLoops, SpecHandlers) *)

\* the bag of the tasks the task loops of w hold
TasksHeld(w) ==
    BagOfAll(LAMBDA l : l.task[1], [l \in Held(w) |-> CopiesIn(l, taskLoops[w])])

\* the step is a call of op by worker w
WorkerCalled(op, w) == lastOp'.op = op /\ lastOp'.who = w

\* C11: a task a worker took with consume_task stays with one of its task loops
\* until that loop publishes a TaskResult with the task's id, and this publish
\* eventually happens, also when stop() is called while the task executes.
C11_ConsumedTaskGetsResult ==
    /\ [][\A w \in Workers :
             /\ WorkerCalled("consume_task", w) /\ lastOp'.val # None
                    => TasksHeld(w)' = TasksHeld(w) (+) Bag1(lastOp'.val[1])
             /\ ~(TasksHeld(w) \sqsubseteq TasksHeld(w)')
                    => /\ WorkerCalled("publish_result", w)
                       /\ \E t \in BagToSet(TasksHeld(w)) :
                              /\ t.id = lastOp'.val[1].task_id
                              /\ TasksHeld(w)' = TasksHeld(w) (-) Bag1(t)
                              /\ results'[t.id] = lastOp'.val]_vars
    /\ (\E w \in Workers : Held(w) # {}) ~> (\A w \in Workers : Held(w) = {})

\* C11 witness: a result was published after stop() returned by a task loop that
\* pulled its task before
C11_Witness ==
    /\ Stopped("w1")
    /\ lastOp.op = "publish_result" /\ lastOp.who = "w1"
    /\ \E l \in BagToSet(taskLoops["w1"]) : l.pc = "check" /\ l.pulls = 0

\* C12: for every consumed task and handler outcome process_task returns one
\* TaskResult, with success true iff the handler returned Ok and error the
\* handler's error; the loop publishes it and goes on with its next iteration; a
\* task loop only ends at its loop test, with the running flag clear.
C12_OneResultPerTaskLoopGoesOn ==
    /\ [](\A w \in Workers : \A l \in BagToSet(taskLoops[w]) :
             IF l.pc = "publish"
             THEN /\ l.task # None /\ l.handled # None /\ l.result # None
                  /\ l.result[1].task_id = l.task[1].id
                  /\ l.result[1].success = l.handled[1].result.is_ok
                  /\ l.result[1].error = l.handled[1].result.err
                  /\ l.result[1].success <=> l.result[1].error = None
             ELSE l.result = None)
    /\ [][\A w \in Workers :
             /\ WorkerCalled("publish_result", w)
                    => \E l \in BagToSet(taskLoops[w]) :
                           /\ l.pc = "publish"
                           /\ lastOp'.val = l.result
                           /\ taskLoops'[w] = Swap(taskLoops[w], l, IdleLoop(l.pulls))
             /\ BagCardinality(taskLoops'[w]) < BagCardinality(taskLoops[w])
                    => /\ ~running[w]
                       /\ \E l \in BagToSet(taskLoops[w]) :
                              l.pc = "check" /\ taskLoops'[w] = taskLoops[w] (-) Bag1(l)]_vars

\* C12 witness: a handler returned an error, the failed result was published, and
\* the task loop of the running worker is at its next iteration
C12_Witness ==
    /\ lastOp.op = "publish_result" /\ lastOp.who = "w1"
    /\ ~lastOp.val[1].success
    /\ lastOp.val[1].error = Some(<<"handler error">>)
    /\ running["w1"]
    /\ IdleLoop(0) \in BagToSet(taskLoops["w1"])

\* the task types published under id
TypesOf(id) == {t.task_type : t \in {u \in BagToSet(published) : u.id = id}}

\* C13: for a task of type Custom(name) the match runs none of the five handlers
\* and process_task returns a failed TaskResult whose error names the type; a
\* result a worker publishes for an id used only for Custom tasks is such a one.
C13_CustomTypeFailsUnhandled ==
    /\ \A w \in Workers : \A l \in BagToSet(taskLoops[w]) :
           l.pc = "publish" /\ l.task[1].task_type.tag = "Custom"
               => /\ l.handled[1].handler = None
                  /\ ~l.result[1].success
                  /\ l.result[1].error # None
                  /\ \E i \in DOMAIN l.result[1].error[1] :
                         l.result[1].error[1][i] = l.task[1].task_type.name
    /\ (/\ lastOp.op = "publish_result"
        /\ lastOp.who \in Workers
        /\ \A ty \in TypesOf(lastOp.val[1].task_id) : ty.tag = "Custom")
           => /\ ~lastOp.val[1].success
              /\ \E cu \in TypesOf(lastOp.val[1].task_id) :
                     lastOp.val[1].error = Some(UnknownCustom(cu.name))

\* C13 witness: the result of a Custom("deploy") task was published
C13_Witness ==
    /\ lastOp.op = "publish_result" /\ lastOp.who = "w1"
    /\ TypesOf(lastOp.val[1].task_id) = {Custom("deploy")}
    /\ lastOp.val[1].error = Some(<<"Unknown custom task type: ", "deploy">>)

----------------------------------------------------------------------------
(* Properties of the session manager (SpecSessions, SpecRoundRobin, SpecSessionsSeq) *)

\* the registered session ids
Registered == {id \in SessionIds : sessions[id] # None}

\* the sessions that hold the task with this id
HoldersOf(task_id) ==
    {id \in Registered : sessions[id][1].task # None /\ sessions[id][1].task[1].id = task_id}

\* the step is the assignment of distribute_task, and its session is Idle and
\* holds no task when the step begins
AssignsToIdle ==
    lastOp'.op = "assign"
        => /\ sessions[lastOp'.val[1]][1].status = "Idle"
           /\ sessions[lastOp'.val[1]][1].task = None

\* C14: under any interleaving of distribute_task and handle_session_failure calls
\* a task is assigned only to a session that is Idle at that moment, so that, as
\* long as no failure took a task away, every task id distribute_task returned
\* is held by exactly one session.
C14_AssignedOnlyToIdleSession ==
    /\ [][AssignsToIdle]_vars
    /\ [](pending_tasks = <<>> /\ (\A c \in BagToSet(mcalls) : c.op = "distribute_task")
             => \A i \in DOMAIN distLog :
                    distLog[i].res = "Ok"
                        => Cardinality(HoldersOf(distLog[i].task_id[1])) = 1)

\* the log entries of the calls that returned Ok
Oks == {i \in DOMAIN distLog : distLog[i].res = "Ok"}

\* C15: with n sessions registered, of sequential distribute_task calls the first
\* n succeed, each assigning to a session that is Idle and holds no task; the
\* sessions that hold a task are Working and as many as the calls that succeeded,
\* so after three calls on three sessions each holds one task.
C15_RoundRobinFillsIdleSessions ==
    /\ [][AssignsToIdle]_vars
    /\ [](/\ \A i \in DOMAIN distLog : i <= Len(order) => distLog[i].res = "Ok"
          /\ \A id \in Registered :
                 sessions[id][1].status = "Working" <=> sessions[id][1].task # None
          /\ \A i \in Oks : HoldersOf(distLog[i].task_id[1]) = {distLog[i].session[1]}
          /\ \A i, j \in Oks : i # j => distLog[i].session # distLog[j].session
          /\ mcalls = EmptyBag
                 => Cardinality({id \in Registered : sessions[id][1].task # None})
                        = Cardinality(Oks))

\* C15 witness: three calls on three sessions have returned, every session is
\* Working
C15_Witness ==
    /\ Len(order) = 3
    /\ Len(distLog) = 3
    /\ \A id \in Registered : sessions[id][1].status = "Working"

\* C16: with three sessions registered, the fourth of four sequential
\* distribute_task calls succeeds and assigns to the session of the first call.
C16_FourthCallWrapsAround ==
    Len(order) = 3 /\ Len(distLog) >= 4
        => /\ distLog[4].res = "Ok"
           /\ distLog[4].session = distLog[1].session

\* the step is the selection of a distribute_task call, with what it returned
SelectionStep ==
    \/ lastOp'.op = "find_available_session"
    \/ lastOp'.op = "distribute_task" /\ lastOp'.res # "Ok"

OtherIdle(pre, session_id) ==
    {id \in SessionIds : id # session_id /\ pre[id] # None /\ pre[id][1].status = "Idle"}

\* C18: when handle_session_failure on a session that held an incomplete task is
\* about to return, that session is Failed and holds no task; if another session
\* was Idle, exactly one of those is now Working with a task of the same prompt,
\* and every other session is as it was.
C18_FailureReassignsToOtherIdle ==
    \A c \in BagToSet(mcalls) :
        c.pc = "return" =>
            LET session_id == c.session_id[1]
                pre == c.pre[1]
                others == OtherIdle(pre, session_id)
            IN  /\ sessions[session_id][1].status = "Failed"
                /\ sessions[session_id][1].task = None
                /\ IF others = {}
                   THEN \A id \in SessionIds \ {session_id} : sessions[id] = pre[id]
                   ELSE \E t \in others :
                            /\ sessions[t][1].status = "Working"
                            /\ sessions[t][1].task # None
                            /\ sessions[t][1].task[1].prompt = pre[session_id][1].task[1].prompt
                            /\ sessions[t][1].task[1].completed_at = None
                            /\ \A id \in SessionIds \ {session_id, t} : sessions[id] = pre[id]

\* C18 witness: handle_session_failure is about to return and two other sessions
\* were Idle when it began
C18_Witness ==
    \E c \in BagToSet(mcalls) :
        /\ c.pc = "return"
        /\ Cardinality(OtherIdle(c.pre[1], c.session_id[1])) = 2

\* C19: handle_session_failure for an id that is not registered returns the
\* not-found error and changes neither a session, nor the pending tasks, nor
\* the round-robin index; for a registered id it does not return that error.
C19_FailureOfUnknownSession ==
    [][\A id \in SessionIds :
          lastOp'.op = "handle_session_failure" /\ lastOp'.who = id
              => IF sessions[id] = None
                 THEN /\ lastOp'.res = "Err: Session not found"
                      /\ UNCHANGED <<sessions, order, round_robin_index, pending_tasks,
                                     mcalls>>
                 ELSE lastOp'.res = "Ok"]_vars

\* C19 witness: the error was returned for an id that is not registered while
\* another session is Working
C19_Witness ==
    /\ lastOp.op = "handle_session_failure"
    /\ lastOp.res = "Err: Session not found"
    /\ sessions[lastOp.who] = None
    /\ \E id \in Registered : sessions[id][1].status = "Working"

\* C20: a distribute_task call that selected a session returns Ok with its task
\* id whatever comes of the forwarding, leaving the sessions as the assignment
\* made them: the selected session stays Working with that task.
C20_ForwardingFailureKeepsAssignment ==
    /\ [][lastOp'.op = "distribute_task" /\ lastOp'.res = "Ok"
             => /\ sessions' = sessions
                /\ \E c \in BagToSet(mcalls) :
                       /\ c.pc = "forward"
                       /\ lastOp'.val = Some(c.task.id)
                       /\ sessions'[c.selected[1]][1].status = "Working"
                       /\ sessions'[c.selected[1]][1].task = Some(c.task)]_vars
    /\ [][\A c \in BagToSet(mcalls) :
             c.pc \in {"assign", "forward"} /\ ~BagIn(c, mcalls')
                 => \/ c.pc = "assign" /\ BagIn([c EXCEPT !.pc = "forward"], mcalls')
                    \/ c.pc = "forward" /\ lastOp' = Op("distribute_task", c.task.prompt,
                                                        "Ok", Some(c.task.id))]_vars
    /\ [](\A i \in Oks :
             /\ sessions[distLog[i].session[1]][1].status = "Working"
             /\ sessions[distLog[i].session[1]][1].task # None
             /\ sessions[distLog[i].session[1]][1].task[1].id = distLog[i].task_id[1])

\* C20 witness: a call whose forwarding failed and a call that found no server
\* have returned, and their sessions are Working
C20_Witness ==
    /\ \E i \in Oks : distLog[i].forwarded = Some("send failed")
    /\ \E i \in Oks : distLog[i].forwarded = Some("no server")
    /\ \A i \in Oks : sessions[distLog[i].session[1]][1].status = "Working"

----------------------------------------------------------------------------
(* Properties of the session registry (SpecRegistry) *)

\* C21: register_session(server_id) returns Ok and adds exactly one session, under
\* an id no session had, with the given server id, status Idle and no task; every
\* session registered before, the round-robin index and the pending tasks are as
\* they were.
C21_RegisterAddsOneIdleSession ==
    [][lastOp'.op = "register_session" =>
          /\ lastOp'.res = "Ok"
          /\ \E id \in SessionIds :
                 /\ sessions[id] = None
                 /\ lastOp'.val = Some(id)
                 /\ sessions'[id] = Some([id |-> id, opencode_server_id |-> lastOp'.who,
                                          status |-> "Idle", task |-> None])
                 /\ \A other \in SessionIds \ {id} : sessions'[other] = sessions[other]
          /\ round_robin_index' = round_robin_index
          /\ pending_tasks' = pending_tasks]_vars

\* a session was just registered while another one is Working and the round
\* robin has moved on
C21_Witness ==
    /\ lastOp.op = "register_session"
    /\ round_robin_index > 0
    /\ \E id \in SessionIds : sessions[id] # None /\ sessions[id][1].status = "Working"

\* C22: no two sessions of the registry have the same backing server id.
C22_OneSessionPerServer ==
    \A a, b \in SessionIds :
        (a # b /\ sessions[a] # None /\ sessions[b] # None)
            => sessions[a][1].opencode_server_id # sessions[b][1].opencode_server_id

\* C29: while a distribute_task call waits for the forwarding of its prompt, the
\* calls that read the registry (list_sessions, get_session_state) can take the
\* sessions lock and return.
C29_RegistryFreeWhileForwarding ==
    (\E c \in BagToSet(mcalls) : c.pc = "forward")
        => /\ ENABLED ListSessions
           /\ \A id \in SessionIds : ENABLED GetSessionState(id)

----------------------------------------------------------------------------
(* Properties of the harness (SpecHarness, FairHarness) *)

\* the simulate_task call with that name has just begun
SimulateCalled(names) == sim'.made = sim.made + 1 /\ sim'.task_type \in names

\* the tasks consume_task has returned under the id of the task of the call
DeliveredOfCall == {t \in BagToSet(delivered) : t.id = sim.task_id[1]}

\* C23: simulate_task("health_check") publishes one HealthCheck task; with the
\* harness started and the task loops polled, the call comes to return Ok, the
\* task consumed once by a worker of the harness, whose successful result the
\* call has taken from the queue.
C23_HealthCheckReturnsSuccess ==
    /\ [][SimulateCalled({"health_check"}) =>
              \E task \in BagToSet(published') :
                  /\ task.task_type = TaskType("HealthCheck")
                  /\ published' = published (+) Bag1(task)
                  /\ tasks' = publish_task(tasks, task)
                  /\ sim'.pc = "poll" /\ sim'.task_id = Some(task.id)]_vars
    /\ (HarnessStarted /\ sim.pc = "poll" /\ sim.task_type = "health_check")
           ~> /\ sim.pc = "returned"
              /\ sim.res = Some(ResultOk)
              /\ \A t \in DeliveredOfCall : CopiesIn(t, delivered) = 1
              /\ Cardinality(DeliveredOfCall) = 1
              /\ lastOp.op = "simulate_task"
              /\ lastOp.val = resultLog[sim.task_id[1]]
              /\ lastOp.val # None /\ lastOp.val[1].success
              /\ \E i \in 1..harness.num_workers : lastOp.val[1].worker_id = HarnessWorker[i]
              /\ results[sim.task_id[1]] = None

\* the call has returned Ok after a consume_result that found nothing
C23_Witness ==
    /\ HarnessStarted
    /\ sim.pc = "returned" /\ sim.task_type = "health_check"
    /\ sim.res = Some(ResultOk)
    /\ sim.polled > 1

\* C24: simulate_task with a name outside the scenarios returns the error naming
\* it and publishes no task, stores no result and changes no worker; the tasks
\* workers list in current_tasks are tasks published for a scenario.
C24_UnknownNameHasNoEffect ==
    /\ [][SimulateCalled(SimulatedNames \ Scenarios) =>
              /\ sim'.pc = "returned"
              /\ sim'.res = Some(ResultErr(<<"Unknown task type: ", sim'.task_type>>))
              /\ UNCHANGED <<tasks, results, published, workers, info, taskLoops>>]_vars
    /\ [](\A w \in Workers : \A k \in 1..Len(info[w].current_tasks) :
              \E t \in BagToSet(published) :
                  /\ t.id = info[w].current_tasks[k]
                  /\ t.task_type \in {ScenarioType(name) : name \in Scenarios})

\* the call with the unknown name has returned while a worker of the started
\* harness runs
C24_Witness ==
    /\ HarnessStarted
    /\ lastOp.op = "simulate_task"
    /\ sim.pc = "returned" /\ sim.task_type = "unknown_type"

\* C25: a simulate_task call makes at most 30 consume_result calls.
C25_AtMostThirtyPolls == sim.polled <= PollAttempts

\* C26: while a worker of the harness lists a task in current_tasks, total_tasks
\* of get_stats is the sum of the lengths of the workers' current_tasks, so at
\* least 1.
C26_TotalTasksCountsTasksInFlight ==
    (\E i \in 1..harness.registered : info[HarnessWorker[i]].current_tasks # <<>>)
        => LET stats == get_stats(workers, now)
           IN  /\ stats.total_tasks
                     = SumOf([w \in Workers |-> Len(info[w].current_tasks)], Workers)
               /\ stats.total_tasks >= 1

----------------------------------------------------------------------------
(* Properties of the results workers publish (SpecPool, SpecHandlers) *)

\* C27: a task comes to be held by a worker only by that worker's consume_task
\* returning it, and a result enters the queue only by a worker publishing it
\* for a task it holds, under its own id as worker_id.
C27_ResultForOwnDequeuedTask ==
    [][/\ \A w \in Workers :
              /\ ~(TasksHeld(w)' \sqsubseteq TasksHeld(w))
                     => /\ WorkerCalled("consume_task", w)
                        /\ lastOp'.val # None
                        /\ BagIn(lastOp'.val[1], delivered')
                        /\ TasksHeld(w)' = TasksHeld(w) (+) Bag1(lastOp'.val[1])
              /\ WorkerCalled("publish_result", w)
                     => /\ lastOp'.val[1].worker_id = info[w].id
                        /\ \E t \in BagToSet(TasksHeld(w)) :
                               /\ t.id = lastOp'.val[1].task_id
                               /\ BagIn(t, delivered)
       /\ \A id \in TaskIds :
              (results'[id] # results[id] /\ results'[id] # None)
                  => /\ lastOp'.op = "publish_result"
                     /\ lastOp'.val = results'[id]
                     /\ lastOp'.who = results'[id][1].worker_id]_vars

\* the second worker has just published a result while the first holds a task
C27_Witness ==
    /\ lastOp.op = "publish_result"
    /\ lastOp.who = "w2"
    /\ lastOp.val[1].worker_id = "w2"
    /\ Held("w1") # {}

\* C30: when a worker publishes the result of a task, the task is still listed
\* in its current_tasks and its status is Busy.
C30_PublishedWhileStillListed ==
    [][\A w \in Workers :
           WorkerCalled("publish_result", w)
               => /\ \E k \in 1..Len(info'[w].current_tasks) :
                         info'[w].current_tasks[k] = lastOp'.val[1].task_id
                  /\ info'[w].status = "Busy"]_vars

----------------------------------------------------------------------------
(* Properties of the two queue clients side by side (SpecBrokers) *)

\* C28: after the same publish_task and consume_task calls, consume_task of the
\* Redis client returns the task consume_task of the in-memory client returns.
C28_BrokerReturnsSameTask ==
    (lastOp.op = "consume_task" /\ lastOp.who = "both clients")
        => lastOp.val[2] = lastOp.val[1]

----------------------------------------------------------------------------
(* Properties of a worker's own WorkerInfo (SpecLifecycle) *)

\* C31: the status of a worker's own WorkerInfo is Busy exactly when its
\* current_tasks lists a task and Online exactly when it lists none; it is never
\* Offline or Maintenance.
C31_BusyIffTaskListed ==
    \A w \in Workers :
        /\ info[w].status = "Busy" <=> info[w].current_tasks # <<>>
        /\ info[w].status = "Online" <=> info[w].current_tasks = <<>>
        /\ info[w].status \notin {"Offline", "Maintenance"}

\* the worker is Busy with a task after stop() has returned
C31_Witness ==
    /\ Stopped("w1")
    /\ info["w1"].status = "Busy"
    /\ info["w1"].current_tasks # <<>>

----------------------------------------------------------------------------
(* Properties of the session manager's locks (SpecLocks, FairLocks) *)

\* C32: rebalance_sessions returns Ok and leaves the sessions, the round-robin
\* index and the pending tasks as they were; the spread of the task counts it
\* computes is at most 1.
C32_RebalanceChangesNothing ==
    [][lastOp'.op = "rebalance_sessions" =>
          /\ lastOp'.res = "Ok"
          /\ UNCHANGED <<sessions, order, round_robin_index, pending_tasks>>
          /\ lastOp'.val # None => lastOp'.val[1] <= 1
          /\ (lastOp'.val = None) <=> (\A id \in SessionIds : sessions[id] = None)]_vars

\* rebalance_sessions has just found a spread of 1, with a Failed session and a
\* task pending
C32_Witness ==
    /\ lastOp.op = "rebalance_sessions"
    /\ lastOp.val = Some(1)
    /\ pending_tasks # <<>>
    /\ \E id \in SessionIds : sessions[id] # None /\ sessions[id][1].status = "Failed"

\* no call holds a lock on sessions
LocksFree == ~WriteLocked /\ ~ReadLocked

\* C40: while a call of the session manager is in flight some call can take its
\* next step; every call in flight comes to return, and a lock on sessions that
\* is held comes to be released.
C40_EveryCallReturns ==
    /\ [](mcalls # EmptyBag => ENABLED LockStep({"sent"}))
    /\ (mcalls # EmptyBag) ~> (mcalls = EmptyBag)
    /\ (~LocksFree) ~> LocksFree

\* the retry of a handle_session_failure call holds the write lock while
\* another call waits for the sessions
C40_Witness ==
    /\ \E c \in BagToSet(mcalls) : c.op = "handle_session_failure" /\ c.pc = "forward"
    /\ \E c \in BagToSet(mcalls) : c.op = "distribute_task" /\ c.pc \in {"read", "assign"}

----------------------------------------------------------------------------
(* Properties of the sessions' life (SpecSessionsSeq, SpecSessions) *)

\* the task the session of a handle_session_failure call held when the call began
FailedTask(c) == c.pre[1][c.session_id[1]][1].task[1]

\* C38: when handle_session_failure is about to return with the task reassigned
\* to a session, the task it pushed to pending_tasks is no longer there.
C38_ReassignedTaskLeavesPending ==
    \A c \in BagToSet(mcalls) :
        (c.op = "handle_session_failure" /\ c.pc = "return" /\ c.selected # None)
            => \A k \in 1..Len(pending_tasks) : pending_tasks[k] # FailedTask(c)

\* the Idle sessions
IdleSessions == {id \in Registered : sessions[id][1].status = "Idle"}

\* C39: a session holds a task exactly when it is Working; no step sets a session
\* Completed or returns a Working or Failed session to Idle; the Idle sessions
\* grow only by register_session; a session is given a task only while it is
\* Idle, so at most once.
C39_TaskIffWorking ==
    /\ [](\A id \in Registered :
              sessions[id][1].task # None <=> sessions[id][1].status = "Working")
    /\ [][\A id \in Registered :
              /\ sessions'[id][1].status # "Completed"
              /\ sessions[id][1].status \in {"Working", "Failed"}
                     => sessions'[id][1].status # "Idle"
              /\ (sessions'[id][1].task # None /\ sessions'[id][1].task # sessions[id][1].task)
                     => sessions[id][1].status = "Idle"]_vars
    /\ [][~(IdleSessions' \subseteq IdleSessions) => lastOp'.op = "register_session"]_vars

----------------------------------------------------------------------------
(* Properties of the Redis client (SpecRedisResults, SpecRedisDirectory) *)

\* C33: of the consume_result calls made for a task id since its result was
\* published through the Redis client, at most one has returned the result.
C33_RedisResultTakenOnce == \A id \in TaskIds : polls[id].hits <= 1

\* C34: once stop() has returned and start() was not called since, the worker
\* has no entry in the directory of the Redis client.
C34_StoppedWorkerStaysRemoved ==
    \A w \in Workers : Stopped(w) => w \notin redis_get_active_workers(redis_workers)

----------------------------------------------------------------------------
(* Properties of restarted workers (SpecTaskLoops) *)

\* C35: whatever stop() and start() calls were made on a worker, at most one of
\* its task loops is live, and its task loops hold at most one task together.
C35_AtMostOneTaskLoop ==
    \A w \in Workers :
        /\ BagCardinality(taskLoops[w]) <= 1
        /\ BagCardinality(TasksHeld(w)) <= 1

----------------------------------------------------------------------------
(* Properties of the harness directory (SpecHarnessStop) *)

\* the harness workers' entries a caller of get_active_workers sees
HarnessIds == {LocalWorkerId[i] : i \in 1..harness.num_workers}

\* C36: after start(N) has returned and until stop() is called, the active
\* entries of the directory are exactly the N synthetic ones, each the synthetic
\* WorkerInfo with max_concurrent_tasks 2 unless it went stale, and the id of
\* each entry is the id its running worker heartbeats and publishes under.
C36_DirectoryHoldsTheHarnessWorkers ==
    (HarnessStarted /\ harness.stop = "-")
        => /\ get_active_workers(workers, now) \subseteq HarnessIds
           /\ \A i \in 1..harness.num_workers :
                  /\ workers[LocalWorkerId[i]] # None
                  /\ workers[LocalWorkerId[i]][1].max_concurrent_tasks = 2
                  /\ info[HarnessWorker[i]].id = LocalWorkerId[i]

\* C37: after the harness's stop() has returned, get_active_workers returns no
\* worker.
C37_NoActiveWorkerAfterStop ==
    harness.stop = "returned" => get_active_workers(workers, now) = {}

====
